---- MODULE Spec2Model ----
(***************************************************************************)
(* A model of the Monkey bytecode virtual machine (src/vm/vm.go), of the   *)
(* compiler's symbol table (src/compiler/symbol_table.go) and of the       *)
(* builtin procedures (src/object/builtins.go).                            *)
(*                                                                         *)
(* The virtual machine is modelled one Run-loop iteration per step: each   *)
(* case of Run's switch is an action.  The Go methods of the VM are        *)
(* operators on a record `v` holding the VM's fields; an action applies    *)
(* the operators to the current fields and commits the result.             *)
(***************************************************************************)
EXTENDS Integers, Sequences, FiniteSets, TLC

VARIABLES
    constants,      \* vm.constants
    stack,          \* vm.stack: slot i is stack[i+1]; slots never written are nil
    sp,             \* vm.sp
    globals,        \* vm.globals: the written slots; the others are nil
    frames,         \* vm.frames: frame i is frames[i+1]
    framesIndex,    \* vm.framesIndex
    heap,           \* Go memory: backing arrays of slices, and maps
    nextId,         \* the next fresh object identity (a Go allocation)
    status,         \* "running", or how Run ended: "ok", "error", "panic"
    err,            \* the error Run returned, or what panicked
    last,           \* history: the instruction executed last, with its inputs
    calls,          \* history: one record per call in progress
    returned,       \* history: the calls that have returned
    tables,         \* the symbol tables created so far
    symLast,        \* history: the symbol-table operation performed last
    values,         \* the objects a caller of the builtins holds
    called,         \* history: the builtin call made last
    store           \* the globals buffer a caller of the VM owns

vmVars == <<constants, stack, sp, globals, frames, framesIndex, heap, nextId,
            status, err>>
histVars == <<last, calls, returned>>
symVars == <<tables, symLast>>
builtinVars == <<values, called>>
replVars == <<store>>
vars == <<vmVars, histVars, symVars, builtinVars, replVars>>

-----------------------------------------------------------------------------
(* Program constants.                                                      *)

StackSize == 2048
MaxFrames == 1024
GlobalsSize == 65536

-----------------------------------------------------------------------------
(* Values.  A value is a record tagged with its object type.  Values with  *)
(* an identity of their own (a Go pointer that `==` compares) carry an id. *)

Nil == [type |-> "nil"]                     \* the nil interface value
True == [type |-> "BOOLEAN", Bool |-> TRUE]
False == [type |-> "BOOLEAN", Bool |-> FALSE]
Null == [type |-> "NULL"]

Integer(n) == [type |-> "INTEGER", Value |-> n]
String(i, s) == [type |-> "STRING", id |-> i, Str |-> s]
Hash(i) == [type |-> "HASH", id |-> i]
\* An Array is a pointer (id) to a struct holding the slice Elements: a
\* window (off, len, cap) on the backing array heap[base].
Array(i, b, o, l, c) ==
    [type |-> "ARRAY", id |-> i, base |-> b, off |-> o, len |-> l, cap |-> c]
CompiledFunction(i, ins, nl, np) ==
    [type |-> "COMPILED_FUNCTION_OBJ", id |-> i, Instructions |-> ins,
     NumLocals |-> nl, NumParameters |-> np]

\* obj.Type(); calling it on the nil interface panics, which callers check.
Type(o) == o.type

\* Elements[i] of an Array value, 0 <= i < len.
ElementAt(h, a, i) == h[a.base][a.off + i + 1]
Elements(h, a) == [i \in 1..a.len |-> h[a.base][a.off + i]]

\* fmt's %d.
RECURSIVE Digits(_)
Digits(n) ==
    LET d == <<"0", "1", "2", "3", "4", "5", "6", "7", "8", "9">>[(n % 10) + 1]
    IN IF n < 10 THEN d ELSE Digits(n \div 10) \o d
FmtD(n) == IF n < 0 THEN "-" \o Digits(-n) ELSE Digits(n)

\* code.ReadUint16 and code.ReadUint8 on ins[at:] (at counted from 0).
ReadUint16(ins, at) == ins[at + 1] * 256 + ins[at + 2]
ReadUint8(ins, at) == ins[at + 1]

\* code.Make: an opcode byte and its operands, big-endian.
Make0(op) == <<op>>
Make8(op, n) == <<op, n>>
Make16(op, n) == <<op, n \div 256, n % 256>>

-----------------------------------------------------------------------------
(* The VM's fields as one record, and the Go methods as operators on it.   *)

VM == [constants |-> constants, stack |-> stack, sp |-> sp,
       globals |-> globals, frames |-> frames, framesIndex |-> framesIndex,
       heap |-> heap, nextId |-> nextId, status |-> status, err |-> err]

\* The caller's buffer s (a Go slice): a VM made by NewWithGlobalsStore has
\* it as vm.globals (shared), so what the VM writes there is written to s;
\* before is s as it was when the last instruction began; vms counts the
\* VMs built.
NoStore == [shared |-> FALSE, s |-> [x \in {} |-> 0],
            before |-> [x \in {} |-> 0],
            vms |-> 1]
Written(v) ==
    [store EXCEPT !.before = store.s,
                  !.s = IF store.shared THEN v.globals ELSE @]

Becomes(v) ==
    /\ constants' = v.constants
    /\ stack' = v.stack
    /\ sp' = v.sp
    /\ globals' = v.globals
    /\ frames' = v.frames
    /\ framesIndex' = v.framesIndex
    /\ heap' = v.heap
    /\ nextId' = v.nextId
    /\ status' = v.status
    /\ err' = v.err

Commit(v) == Becomes(v) /\ store' = Written(v)

\* Run returns the error; a Go runtime panic leaves Run out of band.
Fail(v, msg) == [v EXCEPT !.status = "error", !.err = msg]
Panic(v, why) == [v EXCEPT !.status = "panic", !.err = why]

NewFrame(fn, basePointer) == [fn |-> fn, ip |-> -1, basePointer |-> basePointer]

\* vm.stack[i] and vm.stack[i] = o, for 0 <= i < StackSize.
StackAt(v, i) == IF i + 1 <= Len(v.stack) THEN v.stack[i + 1] ELSE Nil
StackPut(st, i, o) ==
    IF i + 1 <= Len(st)
    THEN [st EXCEPT ![i + 1] = o]
    ELSE st \o [k \in 1..(i - Len(st)) |-> Nil] \o <<o>>
InStack(i) == 0 <= i /\ i < StackSize

GlobalAt(v, i) == IF i \in DOMAIN v.globals THEN v.globals[i] ELSE Nil

currentFrame(v) == v.frames[v.framesIndex]
Instructions(f) == f.fn.Instructions

\* vm.currentFrame().ip += n
AdvanceIp(v, n) == [v EXCEPT !.frames[v.framesIndex].ip = @ + n]
SetIp(v, pos) == [v EXCEPT !.frames[v.framesIndex].ip = pos]

\* tests sp > StackSize, and so writes stack[StackSize]
pushMutOffByOne(v, o) ==
    IF v.sp > StackSize THEN Fail(v, "stack overflow")
    ELSE IF v.sp < 0 \/ v.sp >= StackSize THEN Panic(v, "index out of range")
    ELSE [v EXCEPT !.stack = StackPut(v.stack, v.sp, o), !.sp = v.sp + 1]

push(v, o) ==
    IF v.sp >= StackSize THEN Fail(v, "stack overflow")
    ELSE IF v.sp < 0 THEN Panic(v, "index out of range")
    ELSE [v EXCEPT !.stack = StackPut(v.stack, v.sp, o), !.sp = v.sp + 1]

\* pop returns stack[sp-1] and lowers sp; the slot keeps its value.
CanPop(v) == InStack(v.sp - 1)
popped(v) == StackAt(v, v.sp - 1)
pop(v) == [v EXCEPT !.sp = v.sp - 1]

LastPoppedStackElemMutTop(v) ==
    IF v.sp >= 1 THEN StackAt(v, v.sp - 1) ELSE Nil

LastPoppedStackElem(v) == StackAt(v, v.sp)

isTruthyMutZero(obj) ==
    CASE obj.type = "BOOLEAN" -> obj.Bool
      [] obj.type = "NULL" -> FALSE
      [] obj.type = "INTEGER" -> obj.Value /= 0
      [] OTHER -> TRUE

isTruthy(obj) ==
    CASE obj.type = "BOOLEAN" -> obj.Bool
      [] obj.type = "NULL" -> FALSE
      [] OTHER -> TRUE

\* Two pops in the order the code makes them; a pop below slot 0 panics.
WithPop(v, F(_, _)) ==
    IF ~CanPop(v) THEN Panic(v, "index out of range") ELSE F(pop(v), popped(v))

\* Go's integer division truncates toward zero.
GoDiv(a, b) ==
    LET q == (IF a < 0 THEN -a ELSE a) \div (IF b < 0 THEN -b ELSE b)
    IN IF (a < 0) = (b < 0) THEN q ELSE -q

executeBinaryIntegerOperation(v, op, left, right) ==
    LET leftValue == left.Value
        rightValue == right.Value
    IN CASE op = "OpAdd" -> push(v, Integer(leftValue + rightValue))
         [] op = "OpSub" -> push(v, Integer(leftValue - rightValue))
         [] op = "OpMul" -> push(v, Integer(leftValue * rightValue))
         [] op = "OpDiv" ->
              IF rightValue = 0 THEN Panic(v, "integer divide by zero")
              ELSE push(v, Integer(GoDiv(leftValue, rightValue)))
         [] OTHER -> Fail(v, "unknown integer operator: " \o op)

executeBinaryStringOperation(v, op, left, right) ==
    IF op /= "OpAdd" THEN Fail(v, "unkown string operator: " \o op)
    ELSE push([v EXCEPT !.nextId = @ + 1],
              String(v.nextId, left.Str \o right.Str))

executeBinaryOperation(v, op) ==
    WithPop(v, LAMBDA v1, right : WithPop(v1, LAMBDA v2, left :
        IF left = Nil \/ right = Nil THEN Panic(v2, "nil pointer dereference")
        ELSE IF Type(left) = "INTEGER" /\ Type(right) = "INTEGER"
        THEN executeBinaryIntegerOperation(v2, op, left, right)
        ELSE IF Type(left) = "STRING" /\ Type(right) = "STRING"
        THEN executeBinaryStringOperation(v2, op, left, right)
        ELSE Fail(v2, "unsupported types for binary operation: "
                      \o Type(left) \o " " \o Type(right))))

nativeBoolToBooleanObject(input) == IF input THEN True ELSE False

executeIntegerComparison(v, op, left, right) ==
    LET leftValue == left.Value
        rightValue == right.Value
    IN CASE op = "OpEqual" ->
              push(v, nativeBoolToBooleanObject(leftValue = rightValue))
         [] op = "OpNotEqual" ->
              push(v, nativeBoolToBooleanObject(leftValue /= rightValue))
         [] op = "OpGreaterThan" ->
              push(v, nativeBoolToBooleanObject(leftValue > rightValue))
         [] OTHER -> Fail(v, "unknown operator: " \o op)

\* compares the contents, as a deep equality would
SameObjectMutContent(a, b) ==
    /\ a.type = b.type
    /\ CASE a.type = "STRING" -> a.Str = b.Str
         [] a.type = "ARRAY" -> a.len = b.len
         [] a.type = "INTEGER" -> FALSE
         [] OTHER -> a = b

\* Go's == on two interface values holding pointers: the same object.
SameObject(a, b) ==
    /\ a.type = b.type
    /\ CASE a.type \in {"STRING", "ARRAY", "HASH", "COMPILED_FUNCTION_OBJ"} ->
             a.id = b.id
         [] a.type = "INTEGER" -> FALSE    \* every Integer is a fresh object
         [] OTHER -> a = b

executeComparison(v, op) ==
    WithPop(v, LAMBDA v1, right : WithPop(v1, LAMBDA v2, left :
        IF left = Nil \/ (Type(left) = "INTEGER" /\ right = Nil)
        THEN Panic(v2, "nil pointer dereference")
        ELSE IF Type(left) = "INTEGER" /\ Type(right) = "INTEGER"
        THEN executeIntegerComparison(v2, op, left, right)
        ELSE CASE op = "OpEqual" ->
                    push(v2, nativeBoolToBooleanObject(SameObject(left, right)))
               [] op = "OpNotEqual" ->
                    push(v2, nativeBoolToBooleanObject(~SameObject(left, right)))
               [] OTHER ->
                    IF right = Nil THEN Panic(v2, "nil pointer dereference")
                    ELSE Fail(v2, "unknown operator: " \o op \o " ("
                                  \o Type(left) \o " " \o Type(right) \o ")")))

executeBangOperatorMutNull(v) ==
    WithPop(v, LAMBDA v1, operand :
        CASE operand = True -> push(v1, False)
          [] operand = False -> push(v1, True)
          [] OTHER -> push(v1, False))

executeBangOperator(v) ==
    WithPop(v, LAMBDA v1, operand :
        CASE operand = True -> push(v1, False)
          [] operand = False -> push(v1, True)
          [] operand = Null -> push(v1, True)
          [] OTHER -> push(v1, False))

executeMinusOperator(v) ==
    WithPop(v, LAMBDA v1, operand :
        IF operand = Nil THEN Panic(v1, "nil pointer dereference")
        ELSE IF Type(operand) /= "INTEGER"
        THEN Fail(v1, "unsupported type for negation: " \o Type(operand))
        ELSE push(v1, Integer(-operand.Value)))

\* The Hashable values and their HashKey: the type tag and a digest of the
\* content, equal for equal contents.
Hashable(o) == o.type \in {"INTEGER", "BOOLEAN", "STRING"}
HashKey(o) ==
    CASE o.type = "INTEGER" -> <<"INTEGER", FmtD(o.Value)>>
      [] o.type = "BOOLEAN" -> <<"BOOLEAN", IF o.Bool THEN "1" ELSE "0">>
      [] o.type = "STRING" -> <<"STRING", o.Str>>

\* A Go map after m[k] = p.
MapPut(m, k, p) == [x \in DOMAIN m \cup {k} |-> IF x = k THEN p ELSE m[x]]
EmptyMap == [x \in {} |-> Nil]

\* buildHash's loop from slot i on, over the pairs collected so far: the
\* map, or the key that is unusable.
RECURSIVE buildHashLoop(_, _, _, _)
buildHashLoop(v, i, end, pairs) ==
    IF i >= end THEN [ok |-> TRUE, pairs |-> pairs]
    ELSE LET key == StackAt(v, i)
             value == StackAt(v, i + 1)
         IN IF ~Hashable(key) THEN [ok |-> FALSE, key |-> key]
            ELSE buildHashLoop(v, i + 2, end,
                               MapPut(pairs, HashKey(key),
                                      [Key |-> key, Value |-> value]))

\* buildHash: the new map, the unusable key, or a read outside the stack
\* (the last slot read is end-1, or end when the count is odd).
buildHash(v, start, end) ==
    LET lastRead == IF (end - start) % 2 = 0 THEN end - 1 ELSE end
    IN IF start < end /\ (~InStack(start) \/ ~InStack(lastRead))
       THEN [ok |-> FALSE, key |-> Nil]
       ELSE buildHashLoop(v, start, end, EmptyMap)

\* buildArray: the elements of the new backing array, stack[start..end-1].
buildArray(v, start, end) ==
    [i \in 1..(end - start) |-> StackAt(v, start + i - 1)]

executeArrayIndexExpression(v, left, index) ==
    LET i == index.Value
        max == left.len - 1
    IN IF i < 0 \/ i > max THEN push(v, Null)
       ELSE push(v, ElementAt(v.heap, left, i))

executeHashIndexExpression(v, left, index) ==
    IF ~Hashable(index)
    THEN IF index = Nil THEN Panic(v, "nil pointer dereference")
         ELSE Fail(v, "unusable hash key: " \o Type(index))
    ELSE LET Pairs == v.heap[left.id]
         IN IF HashKey(index) \notin DOMAIN Pairs THEN push(v, Null)
            ELSE push(v, Pairs[HashKey(index)].Value)

executeIndexExpression(v, left, index) ==
    IF left = Nil \/ (Type(left) = "ARRAY" /\ index = Nil)
    THEN Panic(v, "nil pointer dereference")
    ELSE IF Type(left) = "ARRAY" /\ Type(index) = "INTEGER"
    THEN executeArrayIndexExpression(v, left, index)
    ELSE IF Type(left) = "HASH"
    THEN executeHashIndexExpression(v, left, index)
    ELSE Fail(v, "index operator not supported: " \o Type(left))

executeArrayIndexAssignmentExpressionMutHigh(v, left, index, value) ==
    LET i == index.Value
        max == left.len - 1
    IN IF i < 0 \/ i > max + 1 THEN push(v, Null)
       ELSE IF i > max THEN Panic(v, "index out of range")
       ELSE LET h == [v.heap EXCEPT ![left.base][left.off + i + 1] = value]
            IN push([v EXCEPT !.heap = h], ElementAt(h, left, i))

\* pushes the value and stores nothing
executeArrayIndexAssignmentExpressionMutNoStore(v, left, index, value) ==
    LET i == index.Value
        max == left.len - 1
    IN IF i < 0 \/ i > max THEN push(v, Null) ELSE push(v, value)

executeArrayIndexAssignmentExpression(v, left, index, value) ==
    LET i == index.Value
        max == left.len - 1
    IN IF i < 0 \/ i > max THEN push(v, Null)
       ELSE LET h == [v.heap EXCEPT ![left.base][left.off + i + 1] = value]
            IN push([v EXCEPT !.heap = h], ElementAt(h, left, i))

\* stores the pair without asking whether the index is Hashable
executeHashIndexAssignmentExpressionMutNoCheck(v, left, index, value) ==
    LET pair == [Key |-> index, Value |-> value]
        key == IF Hashable(index) THEN HashKey(index) ELSE <<Type(index), "">>
    IN push([v EXCEPT !.heap[left.id] = MapPut(@, key, pair)], value)

executeHashIndexAssignmentExpression(v, left, index, value) ==
    IF ~Hashable(index)
    THEN IF index = Nil THEN Panic(v, "nil pointer dereference")
         ELSE Fail(v, "unusable hash key: " \o Type(index))
    ELSE LET pair == [Key |-> index, Value |-> value]
         IN push([v EXCEPT !.heap[left.id] = MapPut(@, HashKey(index), pair)],
                 value)

executeIndexAssignmentExpression(v, left, index, value) ==
    IF left = Nil \/ (Type(left) = "ARRAY" /\ index = Nil)
    THEN Panic(v, "nil pointer dereference")
    ELSE IF Type(left) = "ARRAY" /\ Type(index) = "INTEGER"
    THEN executeArrayIndexAssignmentExpression(v, left, index, value)
    ELSE IF Type(left) = "HASH"
    THEN executeHashIndexAssignmentExpression(v, left, index, value)
    ELSE Fail(v, "index assign operator not supported: " \o Type(left))

-----------------------------------------------------------------------------
(* Frames and calls.                                                       *)

\* pushFrame: frames[framesIndex] = f; framesIndex++.
pushFrame(v, f) ==
    IF v.framesIndex >= MaxFrames THEN Panic(v, "index out of range")
    ELSE [v EXCEPT !.frames = IF v.framesIndex + 1 <= Len(@)
                                THEN [@ EXCEPT ![v.framesIndex + 1] = f]
                                ELSE Append(@, f),
                   !.framesIndex = @ + 1]

\* popFrame: framesIndex--; the frame it returns is poppedFrame of the result.
popFrame(v) == [v EXCEPT !.framesIndex = @ - 1]
poppedFrame(v) == v.frames[v.framesIndex + 1]

callFunctionMutSwap(v, numArgs) ==
    LET v1 == AdvanceIp(v, 1)
        fn == StackAt(v1, v1.sp - 1 - numArgs)
    IN IF ~InStack(v1.sp - 1 - numArgs) THEN Panic(v1, "index out of range")
       ELSE IF fn.type /= "COMPILED_FUNCTION_OBJ"
       THEN Fail(v1, "calling non-function")
       ELSE IF fn.NumParameters /= numArgs
       THEN Fail(v1, "wrong number of arguments: want=" \o FmtD(numArgs)
                     \o " got=" \o FmtD(fn.NumParameters))
       ELSE LET frame == NewFrame(fn, v1.sp - numArgs)
                v2 == pushFrame(v1, frame)
            IN IF v2.status /= "running" THEN v2
               ELSE [v2 EXCEPT !.sp = frame.basePointer + fn.NumLocals]

callFunction(v, numArgs) ==
    LET v1 == AdvanceIp(v, 1)
        fn == StackAt(v1, v1.sp - 1 - numArgs)
    IN IF ~InStack(v1.sp - 1 - numArgs) THEN Panic(v1, "index out of range")
       ELSE IF fn.type /= "COMPILED_FUNCTION_OBJ"
       THEN Fail(v1, "calling non-function")
       ELSE IF fn.NumParameters /= numArgs
       THEN Fail(v1, "wrong number of arguments: want=" \o FmtD(fn.NumParameters)
                     \o " got=" \o FmtD(numArgs))
       ELSE LET frame == NewFrame(fn, v1.sp - numArgs)
                v2 == pushFrame(v1, frame)
            IN IF v2.status /= "running" THEN v2
               ELSE [v2 EXCEPT !.sp = frame.basePointer + fn.NumLocals]

-----------------------------------------------------------------------------
(* The cases of Run's switch, on the VM `v` whose current frame's ip has   *)
(* been incremented to `ip`, the opcode's place in `ins`.                  *)

caseOpConstant(v, ins, ip) ==
    LET constIndex == ReadUint16(ins, ip + 1)
        v1 == AdvanceIp(v, 2)
    IN IF constIndex >= Len(v1.constants) THEN Panic(v1, "index out of range")
       ELSE push(v1, v1.constants[constIndex + 1])

caseOpPop(v) == WithPop(v, LAMBDA v1, o : v1)

caseOpJumpNotTruthy(v, ins, ip) ==
    LET pos == ReadUint16(ins, ip + 1)
        v1 == AdvanceIp(v, 2)
    IN WithPop(v1, LAMBDA v2, condition :
           IF ~isTruthy(condition) THEN SetIp(v2, pos - 1) ELSE v2)

caseOpJump(v, ins, ip) ==
    LET pos == ReadUint16(ins, ip + 1)
    IN SetIp(v, pos - 1)

caseOpSetGlobal(v, ins, ip) ==
    LET globalIndex == ReadUint16(ins, ip + 1)
        v1 == AdvanceIp(v, 2)
    IN WithPop(v1, LAMBDA v2, o :
           IF globalIndex >= GlobalsSize THEN Panic(v2, "index out of range")
           ELSE [v2 EXCEPT !.globals = globalIndex :> o @@ @])

caseOpGetGlobal(v, ins, ip) ==
    LET globalIndex == ReadUint16(ins, ip + 1)
        v1 == AdvanceIp(v, 2)
    IN IF globalIndex >= GlobalsSize THEN Panic(v1, "index out of range")
       ELSE push(v1, GlobalAt(v1, globalIndex))

caseOpArray(v, ins, ip) ==
    LET numElements == ReadUint16(ins, ip + 1)
        v1 == AdvanceIp(v, 2)
        start == v1.sp - numElements
    IN IF numElements > 0 /\ (~InStack(start) \/ ~InStack(v1.sp - 1))
       THEN Panic(v1, "index out of range")
       ELSE push([v1 EXCEPT !.heap = (v1.nextId + 1)
                                        :> buildArray(v1, start, v1.sp) @@ @,
                            !.nextId = @ + 2,
                            !.sp = start],
                 Array(v1.nextId, v1.nextId + 1, 0, numElements, numElements))

caseOpHash(v, ins, ip) ==
    LET numElements == ReadUint16(ins, ip + 1)
        v1 == AdvanceIp(v, 2)
        start == v1.sp - numElements
        r == buildHash(v1, start, v1.sp)
    IN IF ~r.ok
       THEN IF r.key = Nil THEN Panic(v1, "nil pointer dereference")
            ELSE Fail(v1, "unusable as hash key: " \o Type(r.key))
       ELSE push([v1 EXCEPT !.heap = v1.nextId :> r.pairs @@ @,
                            !.nextId = @ + 1,
                            !.sp = start],
                 Hash(v1.nextId))

caseOpIndex(v) ==
    WithPop(v, LAMBDA v1, index : WithPop(v1, LAMBDA v2, left :
        executeIndexExpression(v2, left, index)))

caseOpIndexAssign(v) ==
    WithPop(v, LAMBDA v1, value : WithPop(v1, LAMBDA v2, index :
        WithPop(v2, LAMBDA v3, left :
            executeIndexAssignmentExpression(v3, left, index, value))))

caseOpCall(v, ins, ip) ==
    LET numArgs == ReadUint8(ins, ip + 1)
    IN callFunction(v, numArgs)

\* writes stack[localIndex], not stack[basePointer + localIndex]
caseOpSetLocalMutNoBase(v, ins, ip) ==
    LET localIndex == ReadUint8(ins, ip + 1)
        v1 == AdvanceIp(v, 1)
    IN WithPop(v1, LAMBDA v2, o :
           [v2 EXCEPT !.stack = StackPut(@, localIndex, o)])

caseOpSetLocal(v, ins, ip) ==
    LET localIndex == ReadUint8(ins, ip + 1)
        v1 == AdvanceIp(v, 1)
        frame == currentFrame(v1)
    IN WithPop(v1, LAMBDA v2, o :
           IF ~InStack(frame.basePointer + localIndex)
           THEN Panic(v2, "index out of range")
           ELSE [v2 EXCEPT !.stack =
                    StackPut(@, frame.basePointer + localIndex, o)])

caseOpGetLocal(v, ins, ip) ==
    LET localIndex == ReadUint8(ins, ip + 1)
        v1 == AdvanceIp(v, 1)
        frame == currentFrame(v1)
    IN IF ~InStack(frame.basePointer + localIndex)
       THEN Panic(v1, "index out of range")
       ELSE push(v1, StackAt(v1, frame.basePointer + localIndex))

caseOpReturnMutKeepCallee(v) ==
    LET v1 == popFrame(v)
        frame == poppedFrame(v1)
    IN push([v1 EXCEPT !.sp = frame.basePointer], Null)

\* leaves the callee's frame in place
caseOpReturnMutNoPopFrame(v) ==
    LET frame == currentFrame(v)
    IN push([v EXCEPT !.sp = frame.basePointer - 1], Null)

caseOpReturn(v) ==
    LET v1 == popFrame(v)
        frame == poppedFrame(v1)
    IN push([v1 EXCEPT !.sp = frame.basePointer - 1], Null)

caseOpReturnValueMutNoPopFrame(v) ==
    WithPop(v, LAMBDA v1, returnValue :
        LET frame == currentFrame(v1)
        IN push([v1 EXCEPT !.sp = frame.basePointer - 1], returnValue))

caseOpReturnValue(v) ==
    WithPop(v, LAMBDA v1, returnValue :
        LET v2 == popFrame(v1)
            frame == poppedFrame(v2)
        IN push([v2 EXCEPT !.sp = frame.basePointer - 1], returnValue))

\* New: the main frame wraps the bytecode's instructions; sp = 0, one frame.
New(bytecode) ==
    LET mainFn == CompiledFunction(0, bytecode.Instructions, 0, 0)
        mainFrame == NewFrame(mainFn, 0)
    IN [constants |-> bytecode.Constants, stack |-> <<>>, sp |-> 0,
        globals |-> EmptyMap, frames |-> <<mainFrame>>, framesIndex |-> 1,
        heap |-> EmptyMap, nextId |-> 1, status |-> "running", err |-> ""]

\* leaves the new VM the globals New made
NewWithGlobalsStoreMutOwn(bytecode, s) == New(bytecode)

NewWithGlobalsStore(bytecode, s) == [New(bytecode) EXCEPT !.globals = s]

-----------------------------------------------------------------------------
(* The programs run: the bytecode of small Monkey programs, in the shapes  *)
(* of the VM's tests, over bounded operands.                               *)

MaxLen == 2         \* array literals have 0..MaxLen elements
MaxArgs == 2        \* functions have 0..MaxArgs parameters and arguments
MaxBelow == 1       \* operands lying on the stack below a callee

PoolMax == MaxLen + 2

RECURSIVE Cat(_)
Cat(ss) == IF ss = <<>> THEN <<>> ELSE Head(ss) \o Cat(Tail(ss))

\* The constants every program shares: the Integers 0..PoolMax, then three
\* Strings (the first and the third are distinct objects with equal content).
Pool ==
    [i \in 1..(PoolMax + 1) |-> Integer(i - 1)]
    \o <<String(-1, "a"), String(-2, "b"), String(-3, "a")>>

eTrue == Make0("OpTrue")
eFalse == Make0("OpFalse")
eNull == Make0("OpNull")
ePop == Make0("OpPop")
eInt(k) == Make16("OpConstant", k)                     \* the literal k
eNeg(k) == eInt(k) \o Make0("OpMinus")                 \* -k
eStr(j) == Make16("OpConstant", PoolMax + j)           \* a string literal
eArr(l) == Cat([i \in 1..l |-> eInt(i)]) \o Make16("OpArray", l)  \* [1, .., l]
eHash0 == Make16("OpHash", 0)                          \* {}
eGt(a, b) == eInt(a) \o eInt(b) \o Make0("OpGreaterThan") \* a > b

Ints == {eInt(k) : k \in 0..2}
Atoms == {eTrue, eFalse, eNull, eNeg(1), eStr(1), eStr(3), eArr(0), eArr(1),
          eHash0, eGt(1, 2), eGt(2, 1)} \cup Ints

\* e;
Stmts == {e \o ePop : e \in Atoms}

\* if (c) { a } else { b };  and  if (c) { a };  whose alternative is OpNull
If(c, a, b) ==
    LET l1 == Len(c) + 3 + Len(a) + 3
        l2 == l1 + Len(b)
    IN Cat(<<c, Make16("OpJumpNotTruthy", l1), a, Make16("OpJump", l2), b, ePop>>)
Ifs == {If(c, eInt(1), b) : c \in Atoms, b \in {eInt(2), eNull}}

\* !e;  !!e;  -e;
Unaries ==
    {e \o Make0("OpBang") \o ePop : e \in Atoms}
    \cup {e \o Make0("OpBang") \o Make0("OpBang") \o ePop : e \in Atoms}
    \cup {e \o Make0("OpMinus") \o ePop : e \in Atoms}

\* a op b;
BinOps == {"OpAdd", "OpSub", "OpMul", "OpDiv", "OpEqual", "OpNotEqual",
           "OpGreaterThan"}
Operands == {eTrue, eFalse, eNull, eNeg(1), eInt(0), eInt(2), eStr(1),
             eStr(2), eStr(3), eArr(1)}
Bins == {Cat(<<a, b, Make0(op), ePop>>) :
            a \in Operands, b \in Operands, op \in BinOps}

\* [1, .., l][i];
Indexes == {eNeg(1), eNeg(2), eStr(1), eTrue}
           \cup {eInt(k) : k \in 0..(MaxLen + 1)}
IndexProgs == {Cat(<<eArr(l), i, Make0("OpIndex"), ePop>>) :
                  l \in 0..MaxLen, i \in Indexes}

\* let arr = [1, .., l]; arr[i] = x; arr[j];
IndexAssignProgs ==
    {Cat(<<eArr(l), Make16("OpSetGlobal", 0),
           Make16("OpGetGlobal", 0), i, x, Make0("OpIndexAssign"), ePop,
           Make16("OpGetGlobal", 0), eInt(j), Make0("OpIndex"), ePop>>) :
        l \in 0..MaxLen, i \in Indexes, x \in {eInt(0), eTrue},
        j \in 0..MaxLen}

\* {k: 1}[i];  {k: 1, 1: 2}[i];  let h = {k: 1}; h[i] = 2; h[k];
Keys == {eInt(1), eInt(2), eTrue, eStr(1), eStr(3), eArr(0), eNull, eHash0}
HashProgs ==
    {Cat(<<k, eInt(1), Make16("OpHash", 2), i, Make0("OpIndex"), ePop>>) :
        k \in Keys, i \in Keys}
    \cup {Cat(<<k, eInt(1), eInt(1), eInt(2), Make16("OpHash", 4), i,
                Make0("OpIndex"), ePop>>) : k \in Keys, i \in Keys}
    \cup {Cat(<<k, eInt(1), Make16("OpHash", 2), Make16("OpSetGlobal", 0),
                Make16("OpGetGlobal", 0), i, eInt(2), Make0("OpIndexAssign"),
                ePop, Make16("OpGetGlobal", 0), k, Make0("OpIndex"), ePop>>) :
            k \in {eInt(1), eStr(1)}, i \in Keys}

\* let one = 1; let two = one + one; one + two;   and a global never set
GlobalProgs ==
    {Cat(<<eInt(1), Make16("OpSetGlobal", 0),
           Make16("OpGetGlobal", 0), Make16("OpGetGlobal", 0), Make0("OpAdd"),
           Make16("OpSetGlobal", 1),
           Make16("OpGetGlobal", 0), Make16("OpGetGlobal", 1), Make0("OpAdd"),
           ePop>>),
     Cat(<<Make16("OpGetGlobal", 7), ePop>>)}

SimplePrograms ==
    {[Instructions |-> ins, Constants |-> Pool] :
        ins \in Stmts \cup Ifs \cup Unaries \cup Bins \cup IndexProgs
                \cup IndexAssignProgs \cup HashProgs \cup GlobalProgs}

\* Function literals with p parameters.  Their constants follow the Pool.
RV == Make0("OpReturnValue")
\* the sum of the parameters, or 1
eSum(p) ==
    IF p = 0 THEN eInt(1)
    ELSE Make8("OpGetLocal", 0)
         \o Cat([i \in 1..(p - 1) |->
                    Make8("OpGetLocal", i) \o Make0("OpAdd")])
\* fn(..) { <sum> }
fnSum(p) == CompiledFunction(-10, eSum(p) \o RV, p, p)
\* fn(..) { let c = <sum>; return c; }
fnLocal(p) ==
    CompiledFunction(-11, Cat(<<eSum(p), Make8("OpSetLocal", p),
                                Make8("OpGetLocal", p), RV>>), p + 1, p)
\* fn(..) { }
fnEmpty(p) == CompiledFunction(-12, Make0("OpReturn"), p, p)
\* fn(..) { return 3; 2 }
fnEarly(p) == CompiledFunction(-13, Cat(<<eInt(3), RV, eInt(2), RV>>), p, p)

Functions(p) == {fnSum(p), fnLocal(p), fnEmpty(p), fnEarly(p)}
eFn(j) == Make16("OpConstant", Len(Pool) + j - 1)  \* the j-th function literal

\* 2 + .. + fn(..){..}(1, .., n);   with `below` operands under the callee
CallProgs ==
    {[Instructions |->
        Cat(<<Cat([i \in 1..below |-> eInt(2)]), eFn(1),
              Cat([i \in 1..n |-> eInt(i)]), Make8("OpCall", n),
              Cat([i \in 1..below |-> Make0("OpAdd")]), ePop>>),
      Constants |-> Pool \o <<f>>] :
        below \in 0..MaxBelow, n \in 0..MaxArgs,
        f \in UNION {Functions(p) : p \in 0..MaxArgs}}

\* let a = fn() { 1 }; let b = fn() { a() + 1 }; let c = fn() { b() + 1 }; c()
NestedCalls ==
    [Instructions |->
        Cat(<<eFn(1), Make16("OpSetGlobal", 0), eFn(2), Make16("OpSetGlobal", 1),
              eFn(3), Make16("OpSetGlobal", 2),
              Make16("OpGetGlobal", 2), Make8("OpCall", 0), ePop>>),
     Constants |-> Pool \o
        <<fnSum(0),
          CompiledFunction(-21, Cat(<<Make16("OpGetGlobal", 0), Make8("OpCall", 0),
                                      eInt(1), Make0("OpAdd"), RV>>), 0, 0),
          CompiledFunction(-22, Cat(<<Make16("OpGetGlobal", 1), Make8("OpCall", 0),
                                      eInt(1), Make0("OpAdd"), RV>>), 0, 0)>>]

\* let sum = fn(a, b) { let c = a + b; return c; }; sum(2, 2) + sum(1, 2)
SumTwice ==
    [Instructions |->
        Cat(<<eFn(1), Make16("OpSetGlobal", 0),
              Make16("OpGetGlobal", 0), eInt(2), eInt(2), Make8("OpCall", 2),
              Make16("OpGetGlobal", 0), eInt(1), eInt(2), Make8("OpCall", 2),
              Make0("OpAdd"), ePop>>),
     Constants |-> Pool \o <<fnLocal(2)>>]

\* let g = fn(x) { let y = x; y }; let f = fn(a) { let b = g(2); a + b }; f(1)
LocalsAcrossCall ==
    [Instructions |->
        Cat(<<eFn(1), Make16("OpSetGlobal", 0), eFn(2), Make16("OpSetGlobal", 1),
              Make16("OpGetGlobal", 1), eInt(1), Make8("OpCall", 1), ePop>>),
     Constants |-> Pool \o
        <<fnLocal(1),
          CompiledFunction(-23,
              Cat(<<Make16("OpGetGlobal", 0), eInt(2), Make8("OpCall", 1),
                    Make8("OpSetLocal", 1), Make8("OpGetLocal", 0),
                    Make8("OpGetLocal", 1), Make0("OpAdd"), RV>>), 2, 1)>>]

\* let one = fn() { 1 }; let oneReturner = fn() { one }; oneReturner()()
FirstClass ==
    [Instructions |->
        Cat(<<eFn(1), Make16("OpSetGlobal", 0), eFn(2), Make16("OpSetGlobal", 1),
              Make16("OpGetGlobal", 1), Make8("OpCall", 0), Make8("OpCall", 0),
              ePop>>),
     Constants |-> Pool \o
        <<fnSum(0),
          CompiledFunction(-24, Cat(<<Make16("OpGetGlobal", 0), RV>>), 0, 0)>>]

\* e(1, .., n);   for an e that is no function, and for an unset global
NonFunctionCalls ==
    {[Instructions |->
        Cat(<<e, Cat([i \in 1..n |-> eInt(i)]), Make8("OpCall", n), ePop>>),
      Constants |-> Pool] :
        e \in {eInt(1), eStr(1), eTrue, eArr(0), Make16("OpGetGlobal", 5)},
        n \in 0..MaxArgs}

\* fn() { let x1 = 1; ..; let xl = 1; 1 }: l local bindings, the operand of
\* OpSetLocal being one byte.
fnLocals(l) ==
    CompiledFunction(-14,
        [k \in 1..(5 * l) |->
            LET i == (k - 1) \div 5
            IN <<"OpConstant", 0, 1, "OpSetLocal", i % 256>>[((k - 1) % 5) + 1]]
        \o eInt(1) \o RV,
        l, 0)

\* fn() { let x1 = 1; ..; 1 }();   for functions whose locals reach the end
\* of the stack, or pass it
ManyLocals ==
    {[Instructions |-> Cat(<<eFn(1), Make8("OpCall", 0), ePop>>),
      Constants |-> Pool \o <<fnLocals(l)>>] :
        l \in {StackSize - 2, StackSize - 1, StackSize}}

\* return e;   at the top level
TopLevelReturns ==
    {[Instructions |-> r, Constants |-> Pool] :
        r \in {eInt(1) \o RV, eInt(1) \o RV \o eInt(2) \o ePop,
               Make0("OpReturn")}}

\* A container with two holders.
\* let a = [1, 2]; let b = a; b[0] = 0; a[0];
\* let h = {1: 1}; let g = h; g[2] = 2; h[2]; g[1] = 0; h[1];
\* let a = [1, 2]; fn(x) { x[0] = 0 }(a); a[0];
Holders ==
    {[Instructions |->
        Cat(<<eArr(2), Make16("OpSetGlobal", 0),
              Make16("OpGetGlobal", 0), Make16("OpSetGlobal", 1),
              Make16("OpGetGlobal", 1), eInt(0), eInt(0),
              Make0("OpIndexAssign"), ePop,
              Make16("OpGetGlobal", 0), eInt(0), Make0("OpIndex"), ePop>>),
      Constants |-> Pool],
     [Instructions |->
        Cat(<<eInt(1), eInt(1), Make16("OpHash", 2), Make16("OpSetGlobal", 0),
              Make16("OpGetGlobal", 0), Make16("OpSetGlobal", 1),
              Make16("OpGetGlobal", 1), eInt(2), eInt(2),
              Make0("OpIndexAssign"), ePop,
              Make16("OpGetGlobal", 0), eInt(2), Make0("OpIndex"), ePop,
              Make16("OpGetGlobal", 1), eInt(1), eInt(0),
              Make0("OpIndexAssign"), ePop,
              Make16("OpGetGlobal", 0), eInt(1), Make0("OpIndex"), ePop>>),
      Constants |-> Pool],
     [Instructions |->
        Cat(<<eArr(2), Make16("OpSetGlobal", 0),
              eFn(1), Make16("OpGetGlobal", 0), Make8("OpCall", 1), ePop,
              Make16("OpGetGlobal", 0), eInt(0), Make0("OpIndex"), ePop>>),
      Constants |-> Pool \o
        <<CompiledFunction(-25,
              Cat(<<Make8("OpGetLocal", 0), eInt(0), eInt(0),
                    Make0("OpIndexAssign"), RV>>), 1, 1)>>]}

Programs ==
    SimplePrograms \cup CallProgs \cup NonFunctionCalls
    \cup {NestedCalls, SumTwice, LocalsAcrossCall, FirstClass}
    \cup ManyLocals \cup TopLevelReturns \cup Holders

-----------------------------------------------------------------------------
(* Run.                                                                    *)

\* The VM's fields are those of the record v.
Is(v) ==
    /\ constants = v.constants
    /\ stack = v.stack
    /\ sp = v.sp
    /\ globals = v.globals
    /\ frames = v.frames
    /\ framesIndex = v.framesIndex
    /\ heap = v.heap
    /\ nextId = v.nextId
    /\ status = v.status
    /\ err = v.err

InitVM(bytecode) ==
    /\ Is(New(bytecode))
    /\ last = [op |-> "none", ip |-> -1, pre |-> New(bytecode),
               calls |-> <<>>, returned |-> {},
               prev |-> [op |-> "none", pre |-> New(bytecode)]]
    /\ calls = <<>>
    /\ returned = {}
    /\ store = NoStore

\* Run's loop condition, and the fetch that opens an iteration.
Running ==
    /\ status = "running"
    /\ framesIndex >= 1
    /\ currentFrame(VM).ip < Len(Instructions(currentFrame(VM))) - 1
Fetched == AdvanceIp(VM, 1)
Ip == currentFrame(Fetched).ip
Ins == Instructions(currentFrame(Fetched))
Op == Ins[Ip + 1]

\* History: the call in progress in frame k (k >= 2) is calls[k-1]; prev is
\* the iteration before this one.
Record == [op |-> Op, ip |-> Ip, pre |-> VM, calls |-> calls,
           returned |-> returned,
           prev |-> [op |-> last.op, pre |-> last.pre]]
Step(v) ==
    /\ Commit(v)
    /\ last' = Record
    /\ UNCHANGED <<calls, returned>>
    /\ UNCHANGED <<symVars, builtinVars>>

OpConstant ==
    Running /\ Op = "OpConstant" /\ Step(caseOpConstant(Fetched, Ins, Ip))

OpArithmetic ==
    /\ Running /\ Op \in {"OpAdd", "OpSub", "OpMul", "OpDiv"}
    /\ Step(executeBinaryOperation(Fetched, Op))

OpPop == Running /\ Op = "OpPop" /\ Step(caseOpPop(Fetched))

OpTrue == Running /\ Op = "OpTrue" /\ Step(push(Fetched, True))

OpFalse == Running /\ Op = "OpFalse" /\ Step(push(Fetched, False))

OpComparison ==
    /\ Running /\ Op \in {"OpEqual", "OpNotEqual", "OpGreaterThan"}
    /\ Step(executeComparison(Fetched, Op))

OpBang == Running /\ Op = "OpBang" /\ Step(executeBangOperator(Fetched))

OpMinus == Running /\ Op = "OpMinus" /\ Step(executeMinusOperator(Fetched))

OpJumpNotTruthy ==
    /\ Running /\ Op = "OpJumpNotTruthy"
    /\ Step(caseOpJumpNotTruthy(Fetched, Ins, Ip))

OpJump == Running /\ Op = "OpJump" /\ Step(caseOpJump(Fetched, Ins, Ip))

OpNull == Running /\ Op = "OpNull" /\ Step(push(Fetched, Null))

OpSetGlobal ==
    Running /\ Op = "OpSetGlobal" /\ Step(caseOpSetGlobal(Fetched, Ins, Ip))

OpGetGlobal ==
    Running /\ Op = "OpGetGlobal" /\ Step(caseOpGetGlobal(Fetched, Ins, Ip))

OpArray == Running /\ Op = "OpArray" /\ Step(caseOpArray(Fetched, Ins, Ip))

OpHash == Running /\ Op = "OpHash" /\ Step(caseOpHash(Fetched, Ins, Ip))

OpIndex == Running /\ Op = "OpIndex" /\ Step(caseOpIndex(Fetched))

OpIndexAssign ==
    Running /\ Op = "OpIndexAssign" /\ Step(caseOpIndexAssign(Fetched))

OpSetLocal ==
    Running /\ Op = "OpSetLocal" /\ Step(caseOpSetLocal(Fetched, Ins, Ip))

OpGetLocal ==
    Running /\ Op = "OpGetLocal" /\ Step(caseOpGetLocal(Fetched, Ins, Ip))

\* A call that pushed a frame opens a call record for that frame.
OpCall ==
    /\ Running /\ Op = "OpCall"
    /\ LET v == caseOpCall(Fetched, Ins, Ip)
           rec == [id |-> Cardinality(returned) + framesIndex,
                   n |-> ReadUint8(Ins, Ip + 1), ip |-> Ip, pre |-> VM]
       IN /\ Commit(v)
          /\ calls' = IF v.framesIndex > framesIndex
                       THEN SubSeq(calls, 1, framesIndex - 1) \o <<rec>>
                       ELSE calls
    /\ last' = Record
    /\ UNCHANGED returned
    /\ UNCHANGED <<symVars, builtinVars>>

\* A return instruction executed in the frame of a call ends that call.
Return(v) ==
    /\ Commit(v)
    /\ last' = Record
    /\ returned' = IF framesIndex >= 2 /\ framesIndex - 1 <= Len(calls)
                    THEN returned \cup {calls[framesIndex - 1].id}
                    ELSE returned
    /\ UNCHANGED calls
    /\ UNCHANGED <<symVars, builtinVars>>

OpReturn == Running /\ Op = "OpReturn" /\ Return(caseOpReturn(Fetched))

OpReturnValue ==
    Running /\ Op = "OpReturnValue" /\ Return(caseOpReturnValue(Fetched))

\* The loop condition is false: Run returns nil.
RunReturns ==
    /\ status = "running"
    /\ framesIndex >= 1
    /\ ~(currentFrame(VM).ip < Len(Instructions(currentFrame(VM))) - 1)
    /\ status' = "ok"
    /\ UNCHANGED <<constants, stack, sp, globals, frames, framesIndex, heap,
                   nextId, err>>
    /\ UNCHANGED histVars
    /\ UNCHANGED <<symVars, builtinVars, replVars>>

-----------------------------------------------------------------------------
(* The symbol table.  A *SymbolTable is an index into `tables`; the nil    *)
(* Outer is 0.                                                             *)

MaxTables == 3      \* symbol tables created
MaxDefs == 3        \* Define calls on one table
MaxBuiltin == 1     \* builtin indexes are 0..MaxBuiltin
Names == {"a", "b"}

GlobalScope == "GLOBAL"
LocalScope == "LOCAL"
BuiltinScope == "BUILTIN"

Symbol(name, scope, index) == [Name |-> name, Scope |-> scope, Index |-> index]
\* the zero Symbol, which Resolve returns with ok = false
NoSymbol == Symbol("", "", 0)

NewSymbolTable == [store |-> EmptyMap, numDefinitions |-> 0, Outer |-> 0]

NewEnclosedSymbolTable(outer) == [NewSymbolTable EXCEPT !.Outer = outer]

DefineSymbolMutStoreSize(st, name) ==
    Symbol(name, IF st.Outer /= 0 THEN LocalScope ELSE GlobalScope,
           Cardinality(DOMAIN st.store))

\* Define: the Symbol returned, and the table after the call.
DefineSymbol(st, name) ==
    Symbol(name, IF st.Outer /= 0 THEN LocalScope ELSE GlobalScope,
           st.numDefinitions)
\* a name the table has already does not advance the count
DefineMutNoAdvance(st, name) ==
    [st EXCEPT !.store = MapPut(@, name, DefineSymbol(st, name)),
               !.numDefinitions = IF name \in DOMAIN st.store THEN @ ELSE @ + 1]

Define(st, name) ==
    [st EXCEPT !.store = MapPut(@, name, DefineSymbol(st, name)),
               !.numDefinitions = @ + 1]

DefineBuiltinSymbol(st, index, name) == Symbol(name, BuiltinScope, index)
DefineBuiltinMutCount(st, index, name) ==
    [st EXCEPT !.store = MapPut(@, name, DefineBuiltinSymbol(st, index, name)),
               !.numDefinitions = @ + 1]

DefineBuiltin(st, index, name) ==
    [st EXCEPT !.store = MapPut(@, name, DefineBuiltinSymbol(st, index, name))]

RECURSIVE RootOf(_, _)
RootOf(ts, t) == IF ts[t].Outer = 0 THEN t ELSE RootOf(ts, ts[t].Outer)

\* on a miss in an enclosed table, looks in the root table only
ResolveMutRootOnly(ts, t, name) ==
    LET st == ts[t]
        ok == name \in DOMAIN st.store
        root == ts[RootOf(ts, t)]
        okRoot == name \in DOMAIN root.store
    IN IF ~ok /\ st.Outer /= 0
       THEN [symbol |-> IF okRoot THEN root.store[name] ELSE NoSymbol,
             ok |-> okRoot]
       ELSE [symbol |-> IF ok THEN st.store[name] ELSE NoSymbol, ok |-> ok]

\* on a miss, looks in the table's outer and no further
ResolveMutOneLevel(ts, t, name) ==
    LET st == ts[t]
        ok == name \in DOMAIN st.store
        outer == ts[st.Outer]
        okOuter == name \in DOMAIN outer.store
    IN IF ~ok /\ st.Outer /= 0
       THEN [symbol |-> IF okOuter THEN outer.store[name] ELSE NoSymbol,
             ok |-> okOuter]
       ELSE [symbol |-> IF ok THEN st.store[name] ELSE NoSymbol, ok |-> ok]

RECURSIVE Resolve(_, _, _)
Resolve(ts, t, name) ==
    LET st == ts[t]
        ok == name \in DOMAIN st.store
    IN IF ~ok /\ st.Outer /= 0 THEN Resolve(ts, st.Outer, name)
       ELSE [symbol |-> IF ok THEN st.store[name] ELSE NoSymbol, ok |-> ok]

\* History: the call made last, what it returned, the tables before it, and
\* how many Define calls each table has had.
SymRecord(op, t, name, index, ret, defines) ==
    [op |-> op, t |-> t, name |-> name, index |-> index, ret |-> ret,
     pre |-> tables, defines |-> defines]

\* One root table exists from the start.
InitSym ==
    /\ tables = <<NewSymbolTable>>
    /\ symLast = [op |-> "NewSymbolTable", t |-> 1, name |-> "", index |-> 0,
                  ret |-> [symbol |-> NoSymbol, ok |-> FALSE], pre |-> <<>>,
                  defines |-> <<0>>]

NewEnclosedSymbolTableCall ==
    /\ Len(tables) < MaxTables
    /\ \E outer \in 1..Len(tables) :
          /\ tables' = Append(tables, NewEnclosedSymbolTable(outer))
          /\ symLast' = SymRecord("NewEnclosedSymbolTable", Len(tables) + 1,
                                  "", 0, symLast.ret,
                                  Append(symLast.defines, 0))
    /\ UNCHANGED <<vmVars, histVars, builtinVars, replVars>>

\* Define on any table, for a name of `names`, while the table has had
\* fewer than MaxDefs Define calls.
DefineIn(names) ==
    /\ \E t \in 1..Len(tables), name \in names :
          /\ symLast.defines[t] < MaxDefs
          /\ tables' = [tables EXCEPT ![t] = Define(@, name)]
          /\ symLast' = SymRecord("Define", t, name, 0,
                                  [symbol |-> DefineSymbol(tables[t], name),
                                   ok |-> TRUE],
                                  [symLast.defines EXCEPT ![t] = @ + 1])
    /\ UNCHANGED <<vmVars, histVars, builtinVars, replVars>>

DefineCall == DefineIn(Names)

DefineBuiltinCall ==
    /\ \E t \in 1..Len(tables), index \in 0..MaxBuiltin, name \in Names :
          /\ tables[t].Outer = 0       \* builtins are installed on the root
          /\ tables' = [tables EXCEPT ![t] = DefineBuiltin(@, index, name)]
          /\ symLast' = SymRecord("DefineBuiltin", t, name, index,
                                  [symbol |-> DefineBuiltinSymbol(tables[t],
                                                                  index, name),
                                   ok |-> TRUE],
                                  symLast.defines)
    /\ UNCHANGED <<vmVars, histVars, builtinVars, replVars>>

ResolveIn(names) ==
    /\ \E t \in 1..Len(tables), name \in names :
          symLast' = SymRecord("Resolve", t, name, 0,
                               Resolve(tables, t, name), symLast.defines)
    /\ UNCHANGED tables
    /\ UNCHANGED <<vmVars, histVars, builtinVars, replVars>>

ResolveCall == ResolveIn(Names)

\* The tables of TestResolveNestedLocal: global defines a, b; local, enclosed
\* in global, defines c, d; secondLocal, enclosed in local, defines e, f.
NestedNames == {"a", "b", "c", "d", "e", "f"}
NestedTables ==
    <<Define(Define(NewSymbolTable, "a"), "b"),
      Define(Define(NewEnclosedSymbolTable(1), "c"), "d"),
      Define(Define(NewEnclosedSymbolTable(2), "e"), "f")>>

NestedDefineCall == DefineIn(NestedNames)
NestedResolveCall == ResolveIn(NestedNames)


-----------------------------------------------------------------------------
(* The builtins.  A builtin is a Go function from its arguments to an      *)
(* Object; g is the Go memory it runs in (the heap and the next identity). *)
(* What a call gives: the Object returned (Nil for Go's nil), the memory   *)
(* after it, and the runtime panic that ended it, if one did.              *)

Error(message) == [type |-> "ERROR", Message |-> message]
newError(message) == Error(message)

Returns(g, o) == [ret |-> o, heap |-> g.heap, nextId |-> g.nextId, panic |-> ""]
Panics(g, why) ==
    [ret |-> Nil, heap |-> g.heap, nextId |-> g.nextId, panic |-> why]

\* (the messages quote names in backquotes, written ' here)
WrongNumber(name, got, want) ==
    newError("wrong number of arguments to '" \o name \o "'. got="
             \o FmtD(got) \o ", want=" \o FmtD(want))

\* The capacity append gives the array it allocates for needed elements
\* when the old capacity does not suffice (the gc runtime's growth for
\* short slices: twice the old capacity, or what is needed if that is more).
GrowCap(oldCap, needed) == IF needed > 2 * oldCap THEN needed ELSE 2 * oldCap

\* append(arr.Elements, o): the slice header returned and the memory after.
\* With room left in the backing array the element is written in place.
GoAppend(g, arr, o) ==
    IF arr.len < arr.cap
    THEN [base |-> arr.base, off |-> arr.off, len |-> arr.len + 1,
          cap |-> arr.cap,
          heap |-> [g.heap EXCEPT ![arr.base][arr.off + arr.len + 1] = o],
          nextId |-> g.nextId]
    ELSE LET newCap == GrowCap(arr.cap, arr.len + 1)
             backing == [i \in 1..newCap |->
                            IF i <= arr.len THEN ElementAt(g.heap, arr, i - 1)
                            ELSE IF i = arr.len + 1 THEN o ELSE Nil]
         IN [base |-> g.nextId, off |-> 0, len |-> arr.len + 1,
             cap |-> newCap, heap |-> g.nextId :> backing @@ g.heap,
             nextId |-> g.nextId + 1]

builtinLenMutAnyType(g, args) ==
    IF Len(args) /= 1 THEN Returns(g, WrongNumber("len", Len(args), 1))
    ELSE LET arg == args[1]
         IN CASE arg.type = "STRING" -> Returns(g, Integer(Len(arg.Str)))
              [] arg.type = "ARRAY" -> Returns(g, Integer(arg.len))
              [] arg.type = "HASH" ->
                    Returns(g, Integer(Cardinality(DOMAIN g.heap[arg.id])))
              [] OTHER -> Returns(g, Integer(0))

builtinLen(g, args) ==
    IF Len(args) /= 1 THEN Returns(g, WrongNumber("len", Len(args), 1))
    ELSE LET arg == args[1]
         IN CASE arg.type = "STRING" -> Returns(g, Integer(Len(arg.Str)))
              [] arg.type = "ARRAY" -> Returns(g, Integer(arg.len))
              [] arg.type = "HASH" ->
                    Returns(g, Integer(Cardinality(DOMAIN g.heap[arg.id])))
              [] arg = Nil -> Panics(g, "nil pointer dereference")
              [] OTHER -> Returns(g, newError(
                    "argument to 'len' not supported, got=" \o Type(arg)))

\* The checks first, last and rest share: one argument, an Array.
ArrayArgument(g, name, args) ==
    IF Len(args) /= 1 THEN Returns(g, WrongNumber("len", Len(args), 1))
    ELSE IF args[1] = Nil THEN Panics(g, "nil pointer dereference")
    ELSE IF Type(args[1]) /= "ARRAY"
    THEN Returns(g, newError("argument to '" \o name \o "' must be ARRAY, got "
                             \o Type(args[1])))
    ELSE Returns(g, args[1])

builtinFirst(g, args) ==
    LET arr == ArrayArgument(g, "first", args).ret
    IN IF arr.type /= "ARRAY" THEN ArrayArgument(g, "first", args)
       ELSE IF arr.len > 0 THEN Returns(g, ElementAt(g.heap, arr, 0))
       ELSE Returns(g, Nil)

builtinLast(g, args) ==
    LET arr == ArrayArgument(g, "last", args).ret
    IN IF arr.type /= "ARRAY" THEN ArrayArgument(g, "last", args)
       ELSE IF arr.len > 0 THEN Returns(g, ElementAt(g.heap, arr, arr.len - 1))
       ELSE Returns(g, Nil)

\* rest: a new Array on arr.Elements[1:], the same backing array one in.
builtinRest(g, args) ==
    LET arr == ArrayArgument(g, "rest", args).ret
    IN IF arr.type /= "ARRAY" THEN ArrayArgument(g, "rest", args)
       ELSE IF arr.len > 0
       THEN [ret |-> Array(g.nextId, arr.base, arr.off + 1, arr.len - 1,
                           arr.cap - 1),
             heap |-> g.heap, nextId |-> g.nextId + 1, panic |-> ""]
       ELSE Returns(g, Nil)

\* push: a new Array on append(arr.Elements, args[1]).
builtinPush(g, args) ==
    IF Len(args) /= 2 THEN Returns(g, WrongNumber("len", Len(args), 2))
    ELSE IF args[1] = Nil THEN Panics(g, "nil pointer dereference")
    ELSE IF Type(args[1]) /= "ARRAY"
    THEN Returns(g, newError("first argument to 'push' must be ARRAY, got "
                             \o Type(args[1])))
    ELSE LET s == GoAppend(g, args[1], args[2])
         IN [ret |-> Array(s.nextId, s.base, s.off, s.len, s.cap),
             heap |-> s.heap, nextId |-> s.nextId + 1, panic |-> ""]

\* puts prints arg.Inspect() for each argument (standard output is not part
\* of the state) and returns nil.
builtinPuts(g, args) ==
    IF \E i \in 1..Len(args) : args[i] = Nil
    THEN Panics(g, "nil pointer dereference")
    ELSE Returns(g, Nil)

\* range: make([]Object, end-start) filled with start, start+1, ..;
\* make panics when the length is negative.
builtinRange(g, args) ==
    IF Len(args) /= 2 THEN Returns(g, WrongNumber("range", Len(args), 2))
    ELSE IF args[1] = Nil \/ (Type(args[1]) = "INTEGER" /\ args[2] = Nil)
    THEN Panics(g, "nil pointer dereference")
    ELSE IF Type(args[1]) /= "INTEGER" \/ Type(args[2]) /= "INTEGER"
    THEN Returns(g, newError("arg must be INTEGERS"))
    ELSE LET start == args[1].Value
             end == args[2].Value
         IN IF end - start < 0 THEN Panics(g, "makeslice: len out of range")
            ELSE [ret |-> Array(g.nextId, g.nextId + 1, 0, end - start,
                                end - start),
                  heap |-> (g.nextId + 1)
                              :> [i \in 1..(end - start) |->
                                     Integer(start + i - 1)] @@ g.heap,
                  nextId |-> g.nextId + 2, panic |-> ""]

\* Builtins, by name.
Builtin(name, g, args) ==
    CASE name = "len" -> builtinLen(g, args)
      [] name = "first" -> builtinFirst(g, args)
      [] name = "last" -> builtinLast(g, args)
      [] name = "rest" -> builtinRest(g, args)
      [] name = "push" -> builtinPush(g, args)
      [] name = "puts" -> builtinPuts(g, args)
      [] name = "range" -> builtinRange(g, args)

\* A caller of the builtins: it holds some objects and calls a builtin on
\* up to MaxArity of them.  When it keeps what push and rest return (MaxKept
\* Arrays at most) it can call them on their own results; what it does not
\* keep is garbage, and the memory allocated for it is dropped.
MaxArity == 2
MaxKept == 2

\* To begin with: [], [1, 2] (as buildArray makes them, with no room left),
\* the Integers 0 and 2, a String and the Hash {0: 2}.
InitialValues ==
    <<Array(1, 2, 0, 0, 0), Array(3, 4, 0, 2, 2), Integer(0), Integer(2),
      String(5, "a"), Hash(6)>>
InitialHeap ==
    2 :> <<>> @@ 4 :> <<Integer(1), Integer(2)>>
    @@ 6 :> MapPut(EmptyMap, HashKey(Integer(0)),
                   [Key |-> Integer(0), Value |-> Integer(2)])

Go == [heap |-> heap, nextId |-> nextId]
Held == {values[i] : i \in 1..Len(values)}
Arguments == UNION {[1..n -> Held] : n \in 0..MaxArity}

InitBuiltins ==
    /\ values = InitialValues
    /\ called = [name |-> "none", args |-> <<>>, ret |-> Nil, panic |-> "",
                 heap |-> InitialHeap, values |-> InitialValues,
                 after |-> InitialHeap]

Call(name, arguments, keeping) ==
    \E args \in arguments :
        LET r == Builtin(name, Go, args)
            kept == keeping /\ r.ret.type = "ARRAY"
                    /\ Len(values) < Len(InitialValues) + MaxKept
        IN /\ called.panic = ""
           /\ called' = [name |-> name, args |-> args, ret |-> r.ret,
                         panic |-> r.panic, heap |-> heap, values |-> values,
                         after |-> r.heap]
           /\ heap' = IF kept THEN r.heap
                      ELSE [b \in DOMAIN heap |-> r.heap[b]]
           /\ nextId' = IF kept THEN r.nextId ELSE nextId
           /\ values' = IF kept THEN Append(values, r.ret) ELSE values
           /\ UNCHANGED <<constants, stack, sp, globals, frames, framesIndex,
                          status, err>>
           /\ UNCHANGED <<histVars, symVars, replVars>>

CallLen == Call("len", Arguments, FALSE)
CallFirst == Call("first", Arguments, FALSE)
CallLast == Call("last", Arguments, FALSE)
CallRest == Call("rest", Arguments, FALSE)
CallPush == Call("push", Arguments, FALSE)
CallPuts == Call("puts", Arguments, FALSE)
CallRange == Call("range", Arguments, FALSE)

\* push(x, y) and rest(x) on what is held, keeping the results; the pushed
\* y is an Integer.
Pushes == {<<x, y>> : x \in Held, y \in {o \in Held : o.type = "INTEGER"}}
PushKeeping == Call("push", Pushes, TRUE)
RestKeeping == Call("rest", [1..1 -> Held], TRUE)

-----------------------------------------------------------------------------
Init == \E bytecode \in Programs : InitVM(bytecode) /\ InitSym /\ InitBuiltins

Next ==
    \/ OpConstant \/ OpArithmetic \/ OpPop \/ OpTrue \/ OpFalse
    \/ OpComparison \/ OpBang \/ OpMinus \/ OpJumpNotTruthy \/ OpJump
    \/ OpNull \/ OpSetGlobal \/ OpGetGlobal \/ OpArray \/ OpHash
    \/ OpIndex \/ OpIndexAssign \/ OpCall \/ OpSetLocal \/ OpGetLocal
    \/ OpReturn \/ OpReturnValue \/ RunReturns

Spec == Init /\ [][Next]_vars

\* The symbol table on its own, beside a VM that has not run.
InitSymbols ==
    /\ InitVM([Instructions |-> <<>>, Constants |-> <<>>])
    /\ InitSym /\ InitBuiltins

NextSymbols ==
    \/ NewEnclosedSymbolTableCall \/ DefineCall
    \/ DefineBuiltinCall \/ ResolveCall

SpecSymbols == InitSymbols /\ [][NextSymbols]_vars

\* The nested tables of the test, then one more Define on each table.
InitNested ==
    /\ InitVM([Instructions |-> <<>>, Constants |-> <<>>])
    /\ InitBuiltins
    /\ tables = NestedTables
    /\ symLast = [op |-> "Define", t |-> 3, name |-> "f", index |-> 0,
                  ret |-> [symbol |-> Symbol("f", LocalScope, 1), ok |-> TRUE],
                  pre |-> [NestedTables EXCEPT
                              ![3] = Define(NewEnclosedSymbolTable(2), "e")],
                  defines |-> <<2, 2, 2>>]

NextNested == NestedDefineCall \/ NestedResolveCall

SpecNested == InitNested /\ [][NextNested]_vars

\* The builtins on their own, in a Go memory that holds the initial Arrays.
InitBuiltinCalls ==
    /\ Is([New([Instructions |-> <<>>, Constants |-> <<>>])
              EXCEPT !.heap = InitialHeap, !.nextId = 7])
    /\ last = [op |-> "none", ip |-> -1,
               pre |-> New([Instructions |-> <<>>, Constants |-> <<>>]),
               calls |-> <<>>, returned |-> {},
               prev |-> [op |-> "none",
                         pre |-> New([Instructions |-> <<>>,
                                      Constants |-> <<>>])]]
    /\ calls = <<>> /\ returned = {}
    /\ store = NoStore
    /\ InitSym /\ InitBuiltins

NextBuiltins ==
    \/ CallLen \/ CallFirst \/ CallLast \/ CallRest \/ CallPush
    \/ CallPuts \/ CallRange

SpecBuiltins == InitBuiltinCalls /\ [][NextBuiltins]_vars

\* x[i] = y on a held Array x, an index in range and a held Integer y, as the
\* VM executes it; the values pushed stay on the VM's stack, MaxAssigns at
\* most.
MaxAssigns == 2

IndexAssignKept ==
    \E x \in {o \in Held : o.type = "ARRAY"},
       y \in {o \in Held : o.type = "INTEGER"} :
        \E i \in 0..(x.len - 1) :
            LET v == executeArrayIndexAssignmentExpression(VM, x, Integer(i), y)
            IN /\ called.panic = ""
               /\ sp < MaxAssigns
               /\ Commit(v)
               /\ called' = [name |-> "index assignment",
                             args |-> <<x, Integer(i), y>>, ret |-> y,
                             panic |-> "", heap |-> heap, values |-> values,
                             after |-> v.heap]
               /\ UNCHANGED <<values, histVars, symVars>>

\* Arrays made by rest, and index assignments on them and on their
\* arguments.
NextRest == RestKeeping \/ IndexAssignKept

SpecRest == InitBuiltinCalls /\ [][NextRest]_vars

\* A read-eval-print loop: it owns the buffer s and runs one VM after the
\* other, MaxSubmissions in all, each built when the Run of the one before
\* has returned, with NewWithGlobalsStore(bytecode, s) or with New(bytecode).
\* The Go memory outlives the VMs.
MaxSubmissions == 3

\* let g = k;  and  g;  for the globals 0 and 1
ReplPrograms ==
    {[Instructions |-> ins, Constants |-> Pool] :
        ins \in {eInt(k) \o Make16("OpSetGlobal", i) : k \in 1..2, i \in 0..1}
                \cup {Make16("OpGetGlobal", i) \o ePop : i \in 0..1}}

Submit(v, shared, name) ==
    /\ status \in {"ok", "error"}
    /\ store.vms < MaxSubmissions
    /\ Becomes([v EXCEPT !.heap = heap, !.nextId = nextId])
    /\ store' = [shared |-> shared, s |-> store.s, before |-> store.s,
                 vms |-> store.vms + 1]
    /\ last' = [op |-> name, ip |-> -1, pre |-> VM, calls |-> calls,
                returned |-> returned,
                prev |-> [op |-> last.op, pre |-> last.pre]]
    /\ calls' = <<>>
    /\ returned' = {}
    /\ UNCHANGED <<symVars, builtinVars>>

NewWithGlobalsStoreCall ==
    \E bytecode \in ReplPrograms :
        Submit(NewWithGlobalsStore(bytecode, store.s), TRUE,
               "NewWithGlobalsStore")

NewCall == \E bytecode \in ReplPrograms : Submit(New(bytecode), FALSE, "New")

InitRepl ==
    \E bytecode \in ReplPrograms :
        /\ Is(NewWithGlobalsStore(bytecode, EmptyMap))
        /\ last = [op |-> "NewWithGlobalsStore", ip |-> -1,
                   pre |-> New(bytecode), calls |-> <<>>, returned |-> {},
                   prev |-> [op |-> "none", pre |-> New(bytecode)]]
        /\ calls = <<>> /\ returned = {}
        /\ store = [shared |-> TRUE, s |-> EmptyMap, before |-> EmptyMap,
                    vms |-> 1]
        /\ InitSym /\ InitBuiltins

NextRepl ==
    \/ OpConstant \/ OpPop \/ OpSetGlobal \/ OpGetGlobal \/ RunReturns
    \/ NewWithGlobalsStoreCall \/ NewCall

SpecRepl == InitRepl /\ [][NextRepl]_vars

\* Arrays made by push and rest from Arrays made by push and rest.
NextArrays == PushKeeping \/ RestKeeping

SpecArrays == InitBuiltinCalls /\ [][NextArrays]_vars

-----------------------------------------------------------------------------
(* Properties of the virtual machine (specification Spec).                 *)

\* What the instruction executed last found: its frame's instructions, the
\* k-th stack slot from the top, and the call its frame belongs to.
LastIns == Instructions(currentFrame(last.pre))
LastTop(k) == StackAt(last.pre, last.pre.sp - 1 - k)
\* a u16 operand, big-endian, in the two bytes after the opcode
LastOperand16 == LastIns[last.ip + 2] * 256 + LastIns[last.ip + 3]
InCallee == last.op /= "none" /\ last.pre.framesIndex >= 2
LastCall == last.calls[last.pre.framesIndex - 1]
IsReturn == last.op \in {"OpReturn", "OpReturnValue"}
\* the place of the opcode the next iteration fetches
NextFetch == currentFrame(VM).ip + 1

\* C1: when Run has returned without error and the instruction executed
\* last is an OpPop, LastPoppedStackElem() is the value that OpPop removed,
\* the top of the stack before it.
C1_LastPoppedIsPopped ==
    status = "ok" /\ last.op = "OpPop"
        => LastPoppedStackElem(VM) = LastTop(0)

\* sum(2, 2) + sum(1, 2) has run to its end and its value 7 was popped last.
C1_Witness ==
    /\ status = "ok" /\ last.op = "OpPop"
    /\ LastTop(0) = Integer(7)
    /\ LastPoppedStackElem(VM) = Integer(7)

\* C2: an OpCall n whose callee, at stack[sp-1-n], is a CompiledFunction
\* with NumParameters /= n ends Run with exactly the error "wrong number of
\* arguments: want=<NumParameters> got=<n>"; no frame is pushed and sp is
\* as before the call.
C2_WrongNumberOfArguments ==
    LET n == LastIns[last.ip + 2]
        callee == LastTop(n)
    IN last.op = "OpCall" /\ InStack(last.pre.sp - 1 - n)
       /\ callee.type = "COMPILED_FUNCTION_OBJ" /\ callee.NumParameters /= n
        => /\ status = "error"
           /\ err = "wrong number of arguments: want="
                     \o FmtD(callee.NumParameters) \o " got=" \o FmtD(n)
           /\ framesIndex = last.pre.framesIndex
           /\ sp = last.pre.sp

\* fn(a, b) { a + b }(3): the message of the VM's test.
C2_Witness ==
    /\ last.op = "OpCall" /\ LastIns[last.ip + 2] = 1
    /\ LastTop(1).type = "COMPILED_FUNCTION_OBJ"
    /\ LastTop(1).NumParameters = 2
    /\ status = "error"
    /\ err = "wrong number of arguments: want=2 got=1"

\* C3: call and return are balanced on the value stack.  When a return
\* instruction has executed in the frame of a call OpCall n made at sp = s:
\* the frame count is the caller's again, sp = s - n, stack[sp-1] is the
\* return value (the callee's top of stack for OpReturnValue, Null for
\* OpReturn), and every slot below the callee's slot s-1-n is as it was
\* just before the call.
C3_CallReturnBalanced ==
    IsReturn /\ InCallee =>
        LET s == LastCall.pre.sp
            n == LastCall.n
            value == IF last.op = "OpReturnValue" THEN LastTop(0) ELSE Null
        IN /\ framesIndex = LastCall.pre.framesIndex
           /\ sp = s - n
           /\ StackAt(VM, sp - 1) = value
           /\ \A i \in 0..(s - 2 - n) :
                  StackAt(VM, i) = StackAt(LastCall.pre, i)

\* 2 + fn(a, b) { }(1, 2) has returned: the 2 below the callee is in place.
C3_Witness ==
    /\ last.op = "OpReturn" /\ InCallee
    /\ LastCall.n = 2 /\ LastCall.pre.sp = 4
    /\ sp = 2 /\ StackAt(VM, 0) = Integer(2) /\ StackAt(VM, 1) = Null

\* C4: a return ends the callee at once and resumes the caller in order.
\* No instruction is executed in the frame of a call that has returned,
\* and after a return instruction of a callee the next fetch is in the
\* caller's frame, at the byte following the operand of its OpCall.
C4_ReturnResumesCaller ==
    /\ InCallee => LastCall.id \notin last.returned
    /\ IsReturn /\ InCallee =>
          /\ framesIndex = LastCall.pre.framesIndex
          /\ currentFrame(VM).fn = currentFrame(LastCall.pre).fn
          /\ NextFetch = LastCall.ip + 2

\* fn() { return 3; 2 }() has returned from its first return, with 3.
C4_Witness ==
    /\ last.op = "OpReturnValue" /\ InCallee
    /\ currentFrame(last.pre).fn = fnEarly(0)
    /\ last.ip = 3
    /\ StackAt(VM, sp - 1) = Integer(3)
    /\ NextFetch = LastCall.ip + 2

\* C9: for an Array of length L and an Integer index i with i < 0 or
\* i >= L, OpIndex pushes Null, and OpIndexAssign pushes Null and leaves
\* the array's elements and length as they were; Run goes on.
C9_ArrayIndexOutOfRange ==
    LET assign == last.op = "OpIndexAssign"
        index == IF assign THEN LastTop(1) ELSE LastTop(0)
        left == IF assign THEN LastTop(2) ELSE LastTop(1)
    IN last.op \in {"OpIndex", "OpIndexAssign"}
       /\ left.type = "ARRAY" /\ index.type = "INTEGER"
       /\ (index.Value < 0 \/ index.Value >= left.len)
        => /\ status = "running"
           /\ StackAt(VM, sp - 1) = Null
           /\ Elements(heap, left) = Elements(last.pre.heap, left)

\* let arr = [1, 2]; arr[2] = 0 has pushed Null and arr is still [1, 2].
C9_Witness ==
    /\ last.op = "OpIndexAssign"
    /\ LastTop(2).type = "ARRAY" /\ LastTop(2).len = 2
    /\ LastTop(1) = Integer(2)
    /\ StackAt(VM, sp - 1) = Null
    /\ Elements(heap, LastTop(2)) = <<Integer(1), Integer(2)>>

\* C10: OpJumpNotTruthy pops exactly one value, and the next fetch is at
\* its target exactly when that value is False or Null; for every other
\* value, Integer(0) too, it is at the instruction after the two operand
\* bytes.  OpJump makes the next fetch happen at its target and leaves the
\* stack as it was.
C10_Jumps ==
    /\ last.op = "OpJumpNotTruthy" /\ CanPop(last.pre) =>
          /\ status = "running"
          /\ sp = last.pre.sp - 1 /\ stack = last.pre.stack
          /\ framesIndex = last.pre.framesIndex
          /\ NextFetch = IF LastTop(0) \in {False, Null}
                          THEN LastOperand16 ELSE last.ip + 3
    /\ last.op = "OpJump" =>
          /\ status = "running"
          /\ sp = last.pre.sp /\ stack = last.pre.stack
          /\ framesIndex = last.pre.framesIndex
          /\ NextFetch = LastOperand16

\* if (0) { 1 } else { 2 }: the condition 0 is popped and the branch not taken.
C10_Witness ==
    /\ last.op = "OpJumpNotTruthy" /\ LastTop(0) = Integer(0)
    /\ LastOperand16 /= last.ip + 3
    /\ NextFetch = last.ip + 3
    /\ sp = last.pre.sp - 1

\* C11: for every value x on the stack, OpBang pushes True when x is False
\* or Null and False otherwise, a canonical True or False in place of x;
\* two OpBang in a row leave True exactly when x is truthy as isTruthy
\* decides it, and False otherwise.
C11_Bang ==
    last.op = "OpBang" /\ CanPop(last.pre) =>
        /\ status = "running" /\ sp = last.pre.sp
        /\ StackAt(VM, sp - 1) \in {True, False}
        /\ StackAt(VM, sp - 1) = True <=> LastTop(0) \in {False, Null}
        /\ last.prev.op = "OpBang" /\ CanPop(last.prev.pre) =>
              LET x == StackAt(last.prev.pre, last.prev.pre.sp - 1)
              IN StackAt(VM, sp - 1) = nativeBoolToBooleanObject(isTruthy(x))

\* !!null has left False.
C11_Witness ==
    /\ last.op = "OpBang" /\ last.prev.op = "OpBang"
    /\ StackAt(last.prev.pre, last.prev.pre.sp - 1) = Null
    /\ LastTop(0) = True
    /\ StackAt(VM, sp - 1) = False

\* The type names a message can quote, and the ways an opcode is quoted.
TypeNames == {"INTEGER", "BOOLEAN", "NULL", "STRING", "ARRAY", "HASH",
              "COMPILED_FUNCTION_OBJ"}
OpNames == {"OpAdd", "OpSub", "OpMul", "OpDiv", "OpEqual", "OpNotEqual",
            "OpGreaterThan"}
\* err is 'prefix' followed by ": <op> (<type> <type>)"
StartsWithOpTypes(prefix) ==
    \E o \in OpNames, a \in TypeNames, b \in TypeNames :
        err = prefix \o ": " \o o \o " (" \o a \o " " \o b \o ")"

\* C12: OpEqual and OpNotEqual compare two Integers by value and every
\* other pair of operands by identity of the value handle: canonical
\* Booleans and Null are equal when they are the same value, two distinct
\* Strings, Arrays or Hashes of the same content are not equal.
\* OpGreaterThan compares two Integers and ends Run with an "unknown
\* operator" error for every other pair.
C12_Comparison ==
    LET right == LastTop(0)
        left == LastTop(1)
        integers == left.type = "INTEGER" /\ right.type = "INTEGER"
        equal == IF integers THEN left.Value = right.Value ELSE left = right
        result == StackAt(VM, sp - 1)
    IN last.op \in {"OpEqual", "OpNotEqual", "OpGreaterThan"}
       /\ last.pre.sp >= 2 /\ left /= Nil /\ right /= Nil
        => CASE last.op = "OpEqual" ->
                  /\ status = "running" /\ sp = last.pre.sp - 1
                  /\ result = nativeBoolToBooleanObject(equal)
             [] last.op = "OpNotEqual" ->
                  /\ status = "running" /\ sp = last.pre.sp - 1
                  /\ result = nativeBoolToBooleanObject(~equal)
             [] last.op = "OpGreaterThan" /\ integers ->
                  /\ status = "running" /\ sp = last.pre.sp - 1
                  /\ result = nativeBoolToBooleanObject(
                                  left.Value > right.Value)
             [] OTHER ->
                  status = "error" /\ StartsWithOpTypes("unknown operator")

\* "a" == "a" on two String objects of the same content has pushed False.
C12_Witness ==
    /\ last.op = "OpEqual"
    /\ LastTop(0).type = "STRING" /\ LastTop(1).type = "STRING"
    /\ LastTop(0).Str = LastTop(1).Str /\ LastTop(0).id /= LastTop(1).id
    /\ StackAt(VM, sp - 1) = False

\* C13: a push attempted when sp >= StackSize fails with "stack overflow":
\* Run ends with that error, and sp and every stack slot are as before.
\* The instructions below push before they do anything else to the stack.
C13_StackOverflow ==
    LET pushesFirst ==
            \/ last.op \in {"OpConstant", "OpTrue", "OpFalse", "OpNull",
                             "OpGetGlobal", "OpGetLocal"}
            \/ last.op \in {"OpArray", "OpHash"} /\ LastOperand16 = 0
    IN pushesFirst /\ last.pre.sp >= StackSize =>
          /\ status = "error" /\ err = "stack overflow"
          /\ sp = last.pre.sp /\ stack = last.pre.stack

\* The first push of a function whose locals fill the stack.
C13_Witness ==
    /\ last.op = "OpConstant" /\ last.pre.sp = StackSize
    /\ last.pre.framesIndex = 2
    /\ status = "error" /\ err = "stack overflow"
    /\ sp = StackSize /\ stack = last.pre.stack

\* C14: in every state reachable during Run, 0 <= sp <= StackSize: also
\* right after OpCall sets sp = basePointer + NumLocals, after OpReturn and
\* OpReturnValue set sp = basePointer - 1, after OpArray and OpHash lower sp
\* by their count, and after every pop.
C14_SpInBounds == 0 <= sp /\ sp <= StackSize

\* C15: in every state reachable during Run, 1 <= framesIndex <= MaxFrames
\* and frames[0] is the main frame: no OpCall pushes a frame beyond the
\* frames array and no return pops the main frame.
C15_FramesInBounds ==
    /\ 1 <= framesIndex /\ framesIndex <= MaxFrames
    /\ frames[1].fn.id = 0 /\ frames[1].basePointer = 0

\* C16: for two String operands OpAdd pushes a new String, the left
\* content followed by the right content, and OpSub, OpMul and OpDiv end
\* Run with an error that starts with "unknown string operator"; for an
\* operand pair that is neither Integer/Integer nor String/String, Run ends
\* with an error that starts with "unsupported types for binary operation".
C16_StringOperations ==
    LET right == LastTop(0)
        left == LastTop(1)
        result == StackAt(VM, sp - 1)
        strings == left.type = "STRING" /\ right.type = "STRING"
        integers == left.type = "INTEGER" /\ right.type = "INTEGER"
    IN last.op \in {"OpAdd", "OpSub", "OpMul", "OpDiv"}
       /\ last.pre.sp >= 2 /\ left /= Nil /\ right /= Nil /\ ~integers
        => CASE strings /\ last.op = "OpAdd" ->
                  /\ status = "running" /\ sp = last.pre.sp - 1
                  /\ result.type = "STRING"
                  /\ result.Str = left.Str \o right.Str
                  /\ result.id \notin {left.id, right.id}
             [] strings /\ last.op /= "OpAdd" ->
                  /\ status = "error"
                  /\ \E o \in OpNames :
                        err = "unknown string operator" \o ": " \o o
             [] OTHER ->
                  /\ status = "error"
                  /\ \E a \in TypeNames, b \in TypeNames :
                        err = "unsupported types for binary operation"
                              \o ": " \o a \o " " \o b

\* The variants that are no hash keys, and equality of content of two keys.
NonHashable(o) ==
    o.type \in {"ARRAY", "HASH", "COMPILED_FUNCTION_OBJ", "NULL"}
SameContent(a, b) ==
    /\ a.type = b.type
    /\ CASE a.type = "INTEGER" -> a.Value = b.Value
         [] a.type = "BOOLEAN" -> a.Bool = b.Bool
         [] a.type = "STRING" -> a.Str = b.Str
         [] OTHER -> FALSE

\* C17: a non-hashable value never becomes a key of a Hash.  OpHash with
\* such a key ends Run with "unusable as hash key", OpIndex and
\* OpIndexAssign on a Hash with such an index end Run with "unusable hash
\* key", and in each case no Hash is created or modified; OpIndex on a Hash
\* with a hashable key that is absent pushes Null.
C17_HashKeys ==
    LET assign == last.op = "OpIndexAssign"
        index == IF assign THEN LastTop(1) ELSE LastTop(0)
        left == IF assign THEN LastTop(2) ELSE LastTop(1)
        start == last.pre.sp - LastOperand16
        keys == {StackAt(last.pre, start + 2 * j) :
                    j \in 0..((LastOperand16 \div 2) - 1)}
    IN /\ last.op = "OpHash" /\ start >= 0 /\ LastOperand16 % 2 = 0
          /\ Nil \notin keys /\ (\E k \in keys : NonHashable(k)) =>
             /\ status = "error"
             /\ \E k \in keys : NonHashable(k)
                   /\ err = "unusable as hash key: " \o k.type
             /\ heap = last.pre.heap /\ sp = last.pre.sp
       /\ last.op \in {"OpIndex", "OpIndexAssign"} /\ left.type = "HASH"
          /\ NonHashable(index) =>
             /\ status = "error"
             /\ err = "unusable hash key: " \o index.type
             /\ heap = last.pre.heap
       /\ last.op = "OpIndex" /\ left.type = "HASH"
          /\ index /= Nil /\ ~NonHashable(index)
          /\ (\A k \in DOMAIN last.pre.heap[left.id] :
                 ~SameContent(last.pre.heap[left.id][k].Key, index)) =>
             /\ status = "running"
             /\ StackAt(VM, sp - 1) = Null
             /\ heap = last.pre.heap
       /\ \A o \in {stack[i] : i \in 1..Len(stack)}
                   \cup {globals[g] : g \in DOMAIN globals} :
             o.type = "HASH" =>
                \A k \in DOMAIN heap[o.id] :
                    heap[o.id][k].Key /= Nil /\ ~NonHashable(heap[o.id][k].Key)

\* let h = {1: 1}; h[[]] = 2 has ended Run and h is as it was.
C17_Witness ==
    /\ last.op = "OpIndexAssign"
    /\ LastTop(2).type = "HASH" /\ LastTop(1).type = "ARRAY"
    /\ status = "error" /\ err = "unusable hash key: ARRAY"
    /\ DOMAIN heap[LastTop(2).id] = {HashKey(Integer(1))}

-----------------------------------------------------------------------------
(* Properties of the symbol table (specifications SpecSymbols, SpecNested). *)

\* The tables of t's outer chain, t first, and how many Outer links lead
\* from t to a table u of its chain.
RECURSIVE OuterChain(_, _)
OuterChain(ts, t) ==
    IF t = 0 THEN {} ELSE {t} \cup OuterChain(ts, ts[t].Outer)
RECURSIVE Hops(_, _, _)
Hops(ts, t, u) == IF t = u THEN 0 ELSE 1 + Hops(ts, ts[t].Outer, u)
Binds(ts, u, name) == name \in DOMAIN ts[u].store
Found(symbol) == [symbol |-> symbol, ok |-> TRUE]

\* C5: the k-th Define call on a table (k from 0) returns a Symbol with
\* Index k, GlobalScope when the table has no outer and LocalScope when it
\* has one, whatever Define calls on other tables, DefineBuiltin calls and
\* NewEnclosedSymbolTable calls came before; a new enclosed table starts
\* at 0.
C5_DefineNumbering ==
    symLast.op = "Define" =>
        LET t == symLast.t
            k == symLast.defines[t] - 1
        IN symLast.ret.symbol =
              Symbol(symLast.name,
                     IF symLast.pre[t].Outer = 0 THEN GlobalScope
                                                 ELSE LocalScope,
                     k)

\* The third Define on the root, of a name it has already, after a builtin
\* was installed and an enclosed table had a Define of its own.
C5_Witness ==
    /\ symLast.op = "Define" /\ symLast.t = 1
    /\ symLast.ret.symbol = Symbol("a", GlobalScope, 2)
    /\ Binds(symLast.pre, 1, "a")
    /\ \E n \in Names : Binds(symLast.pre, 1, n)
                          /\ symLast.pre[1].store[n].Scope = BuiltinScope
    /\ Len(tables) >= 2 /\ tables[2].numDefinitions >= 1

\* C6 as stated: with root defining a, b, a first enclosed table defining
\* c, d and a second table enclosed in the first defining e, f, Resolve on
\* the second table yields Global a, b (0, 1) and Local e, f (0, 1), and
\* not-found for c and d; and a name defined only in a non-root table T is
\* not resolvable from a table enclosed in T.
C6_Original ==
    symLast.op = "Resolve" =>
        LET ts == symLast.pre
            t == symLast.t
            name == symLast.name
            ret == symLast.ret
        IN /\ ts = NestedTables /\ t = 3 =>
                /\ name = "a" => ret = Found(Symbol("a", GlobalScope, 0))
                /\ name = "b" => ret = Found(Symbol("b", GlobalScope, 1))
                /\ name = "e" => ret = Found(Symbol("e", LocalScope, 0))
                /\ name = "f" => ret = Found(Symbol("f", LocalScope, 1))
                /\ name \in {"c", "d"} => ~ret.ok
           /\ \A T \in OuterChain(ts, t) \ {t} :
                 /\ ts[T].Outer /= 0
                 /\ \A u \in 1..Len(ts) : Binds(ts, u, name) <=> u = T
                 => ~ret.ok

\* C6, amended: in the same tables Resolve on the second table yields
\* Global a, b (0, 1), Local e, f (0, 1), and for c and d the first
\* enclosed table's symbols, Local c (0) and Local d (1); and a name
\* defined only in a non-root table T resolves, from a table enclosed in
\* T, to T's symbol for it.
C6_NestedLocalsResolve ==
    symLast.op = "Resolve" =>
        LET ts == symLast.pre
            t == symLast.t
            name == symLast.name
            ret == symLast.ret
        IN /\ ts = NestedTables /\ t = 3 =>
                /\ name = "a" => ret = Found(Symbol("a", GlobalScope, 0))
                /\ name = "b" => ret = Found(Symbol("b", GlobalScope, 1))
                /\ name = "e" => ret = Found(Symbol("e", LocalScope, 0))
                /\ name = "f" => ret = Found(Symbol("f", LocalScope, 1))
                /\ name = "c" => ret = Found(Symbol("c", LocalScope, 0))
                /\ name = "d" => ret = Found(Symbol("d", LocalScope, 1))
           /\ \A T \in OuterChain(ts, t) \ {t} :
                 /\ ts[T].Outer /= 0
                 /\ \A u \in 1..Len(ts) : Binds(ts, u, name) <=> u = T
                 => ret = Found(ts[T].store[name])

\* secondLocal.Resolve("c") in the tables of the test.
C6_Witness ==
    /\ symLast.op = "Resolve" /\ symLast.pre = NestedTables
    /\ symLast.t = 3 /\ symLast.name = "c"
    /\ symLast.ret = Found(Symbol("c", LocalScope, 0))

\* C7: Resolve(name) on a table returns the symbol stored in the nearest
\* table of its outer chain, the table itself first, that binds name, and
\* not-found exactly when no table of the chain binds it; Resolve changes
\* no table.
C7_ResolveNearest ==
    symLast.op = "Resolve" =>
        LET ts == symLast.pre
            t == symLast.t
            name == symLast.name
            binders == {u \in OuterChain(ts, t) : Binds(ts, u, name)}
        IN /\ tables = ts
           /\ symLast.ret.ok <=> binders /= {}
           /\ \A u \in binders :
                 (\A w \in binders : Hops(ts, t, u) <= Hops(ts, t, w))
                 => symLast.ret.symbol = ts[u].store[name]
           /\ binders = {} => symLast.ret.symbol = NoSymbol

\* Resolve from a table two levels down: its outer's Local symbol shadows
\* the root's different symbol for the name.
C7_Witness ==
    /\ symLast.op = "Resolve" /\ symLast.t = 3
    /\ Len(tables) = 3 /\ tables[3].Outer = 2 /\ tables[2].Outer = 1
    /\ ~Binds(tables, 3, symLast.name)
    /\ Binds(tables, 2, symLast.name) /\ Binds(tables, 1, symLast.name)
    /\ symLast.ret = Found(tables[2].store[symLast.name])
    /\ tables[2].store[symLast.name] /= tables[1].store[symLast.name]

\* C8 as stated: after DefineBuiltin(i, name) on the root table, name
\* resolves to Symbol{name, BuiltinScope, i} from the root and from every
\* table enclosed in it, at any depth, that does not itself bind name; the
\* table's definition count is unchanged, and so is the index the next
\* Define returns.
C8_Original ==
    symLast.op = "DefineBuiltin" /\ symLast.pre[symLast.t].Outer = 0 =>
        LET t == symLast.t
            name == symLast.name
            builtin == Found(Symbol(name, BuiltinScope, symLast.index))
        IN /\ symLast.ret = builtin
           /\ \A u \in 1..Len(tables) :
                 t \in OuterChain(tables, u)
                 /\ (u = t \/ ~Binds(tables, u, name))
                 => Resolve(tables, u, name) = builtin
           /\ tables[t].numDefinitions = symLast.pre[t].numDefinitions
           /\ \A n \in Names : DefineSymbol(tables[t], n).Index
                                 = DefineSymbol(symLast.pre[t], n).Index

\* C8, amended: after DefineBuiltin(i, name) on the root table, name
\* resolves to Symbol{name, BuiltinScope, i} from the root and from every
\* table enclosed in it, at any depth, such that neither the table nor any
\* table between it and the root binds name; the table's definition count
\* is unchanged, and so is the index the next Define returns.
C8_BuiltinVisible ==
    symLast.op = "DefineBuiltin" /\ symLast.pre[symLast.t].Outer = 0 =>
        LET t == symLast.t
            name == symLast.name
            builtin == Found(Symbol(name, BuiltinScope, symLast.index))
        IN /\ symLast.ret = builtin
           /\ \A u \in 1..Len(tables) :
                 t \in OuterChain(tables, u)
                 /\ (\A w \in OuterChain(tables, u) \ {t} :
                        ~Binds(tables, w, name))
                 => Resolve(tables, u, name) = builtin
           /\ tables[t].numDefinitions = symLast.pre[t].numDefinitions
           /\ \A n \in Names : DefineSymbol(tables[t], n).Index
                                 = DefineSymbol(symLast.pre[t], n).Index

\* DefineBuiltin(1, name) on a root that has had a Define: the name
\* resolves to the builtin from a table two levels down.
C8_Witness ==
    /\ symLast.op = "DefineBuiltin" /\ symLast.t = 1 /\ symLast.index = 1
    /\ tables[1].numDefinitions >= 1
    /\ Len(tables) = 3 /\ tables[3].Outer = 2 /\ tables[2].Outer = 1
    /\ Resolve(tables, 3, symLast.name)
          = Found(Symbol(symLast.name, BuiltinScope, 1))

\* C25: Define of a name the table binds already replaces the binding by
\* the Symbol it returns, whose Index is the table's count of Define calls so
\* far and so above the Index an earlier Define gave the name; Resolve of
\* the name on the table then yields that Symbol; the count has advanced all
\* the same: the next Define on the table, of any name, returns the next
\* Index.
C25_Redefine ==
    /\ \A t \in 1..Len(tables) :
           tables[t].numDefinitions = symLast.defines[t]
    /\ (symLast.op = "Define" /\ Binds(symLast.pre, symLast.t, symLast.name)) =>
           LET t == symLast.t
               x == symLast.name
               old == symLast.pre[t].store[x]
               j == symLast.ret.symbol.Index
           IN /\ j = symLast.pre[t].numDefinitions
              /\ old.Scope # BuiltinScope => old.Index < j
              /\ tables[t].store[x] = symLast.ret.symbol
              /\ Resolve(tables, t, x)
                     = [symbol |-> symLast.ret.symbol, ok |-> TRUE]
              /\ \A n \in Names : DefineSymbol(tables[t], n).Index = j + 1
    /\ (symLast.op = "Resolve" /\ Binds(tables, symLast.t, symLast.name)) =>
           symLast.ret
               = [symbol |-> tables[symLast.t].store[symLast.name], ok |-> TRUE]

\* The root had a at Index 0 and b at Index 1; Define(a) has returned Index 2.
C25_Witness ==
    /\ symLast.op = "Define" /\ symLast.t = 1 /\ symLast.name = "a"
    /\ Binds(symLast.pre, 1, "a")
    /\ symLast.pre[1].store["a"] = Symbol("a", GlobalScope, 0)
    /\ symLast.ret.symbol = Symbol("a", GlobalScope, 2)
    /\ tables[1].numDefinitions = 3

-----------------------------------------------------------------------------
\* Properties of the builtins.  called is the last call: its arguments, what
\* it returned, the memory before it (called.heap) and as the builtin left
\* it (called.after), and what the caller held before it (called.values).

ArraysHeld == {o \in {called.values[i] : i \in 1..Len(called.values)} :
                   o.type = "ARRAY"}
OfAnArray(k) == Len(called.args) = k /\ called.args[1].type = "ARRAY"

\* C18: push(arr, v) returns a new Array whose elements are those of arr
\* followed by v, and leaves the elements of arr and of every Array held
\* before the call (the results of the earlier pushes among them) as they
\* were.
C18_PushNonMutating ==
    (called.name = "push" /\ OfAnArray(2)) =>
        /\ called.panic = ""
        /\ called.ret.type = "ARRAY"
        /\ \A o \in ArraysHeld : o.id # called.ret.id
        /\ Elements(called.after, called.ret)
               = Append(Elements(called.heap, called.args[1]), called.args[2])
        /\ \A o \in ArraysHeld :
               Elements(called.after, o) = Elements(called.heap, o)

\* C19: range(start, end) of two Integers returns the Array of the integers
\* start, ..., end - 1 in this order, the empty Array when end <= start; with
\* another number of arguments or an argument that is not an Integer it
\* returns an Error.
C19_Range ==
    called.name = "range" =>
        /\ called.panic = ""
        /\ IF /\ Len(called.args) = 2
              /\ \A i \in 1..2 : called.args[i].type = "INTEGER"
           THEN LET start == called.args[1].Value
                    end == called.args[2].Value
                    n == IF end <= start THEN 0 ELSE end - start
                IN /\ called.ret.type = "ARRAY"
                   /\ Elements(called.after, called.ret)
                          = [i \in 1..n |-> Integer(start + i - 1)]
           ELSE called.ret.type = "ERROR"

\* C20: first, last and rest of an empty Array return Null, the object the VM
\* pushes for OpNull, and so does puts; of an Array that is not empty, first
\* returns element 0, last the last element and rest an Array of the
\* elements from index 1 on.
C20_FirstLastRestPuts ==
    /\ called.name = "puts" => called.panic = "" /\ called.ret = Null
    /\ (called.name \in {"first", "last", "rest"} /\ OfAnArray(1)) =>
           LET elements == Elements(called.heap, called.args[1])
           IN /\ called.panic = ""
              /\ IF elements = <<>> THEN called.ret = Null
                 ELSE CASE called.name = "first" -> called.ret = elements[1]
                        [] called.name = "last"
                               -> called.ret = elements[Len(elements)]
                        [] called.name = "rest"
                               -> /\ called.ret.type = "ARRAY"
                                  /\ Elements(called.after, called.ret)
                                         = Tail(elements)

\* What each builtin accepts: the number of arguments and their types.
Accepts(name, args) ==
    CASE name = "len" ->
             Len(args) = 1 /\ args[1].type \in {"STRING", "ARRAY", "HASH"}
      [] name \in {"first", "last", "rest"} ->
             Len(args) = 1 /\ args[1].type = "ARRAY"
      [] name = "push" -> Len(args) = 2 /\ args[1].type = "ARRAY"
      [] name = "range" ->
             Len(args) = 2 /\ \A i \in 1..2 : args[i].type = "INTEGER"
      [] OTHER -> TRUE

\* C21: len, first, last, rest, push and range called with a wrong number of
\* arguments or with an argument of a type they do not accept return an
\* Error and do not panic; len of a String is its length in bytes, of an
\* Array its number of elements, of a Hash its number of pairs.
C21_MisuseInBand ==
    /\ ~Accepts(called.name, called.args) =>
           called.panic = "" /\ called.ret.type = "ERROR"
    /\ (called.name = "len" /\ Accepts("len", called.args)) =>
           LET arg == called.args[1]
           IN /\ called.panic = ""
              /\ called.ret =
                     Integer(CASE arg.type = "STRING" -> Len(arg.Str)
                               [] arg.type = "ARRAY" ->
                                      Len(Elements(called.heap, arg))
                               [] arg.type = "HASH" ->
                                      Cardinality(DOMAIN called.heap[arg.id]))

C21_Witness ==
    /\ called.name = "len"
    /\ Len(called.args) = 1
    /\ called.args[1].type = "INTEGER"
    /\ called.ret.type = "ERROR"

\* The local slots of a frame, and the frames that were active before the
\* instruction executed last and still are.
LocalSlots(f) == f.basePointer .. (f.basePointer + f.fn.NumLocals - 1)
LastOperand8 == LastIns[last.ip + 2]
Surviving ==
    1 .. (IF framesIndex < last.pre.framesIndex
          THEN framesIndex ELSE last.pre.framesIndex)

\* C23: while Run goes on, basePointer <= sp for every active frame.  An
\* OpCall n that enters a function gives the new frame basePointer = sp - n
\* and sets sp = basePointer + NumLocals, so the n arguments are its locals
\* 0..n-1.  OpSetLocal i pops a value into stack[basePointer + i] and
\* changes no other slot; OpGetLocal i pushes stack[basePointer + i].  No
\* other instruction changes a local slot of a frame that stays active: not
\* the pushes of the frame itself, and nothing its callees do.
C23_FrameLocals ==
    /\ status = "running" =>
           /\ \A k \in 1..framesIndex : frames[k].basePointer <= sp
           /\ currentFrame(VM).basePointer + currentFrame(VM).fn.NumLocals <= sp
    /\ (last.op = "OpCall" /\ framesIndex = last.pre.framesIndex + 1) =>
           LET n == LastOperand8
               f == currentFrame(VM)
           IN /\ f.basePointer = last.pre.sp - n
              /\ sp = f.basePointer + f.fn.NumLocals
              /\ \A i \in 0..(n - 1) :
                     StackAt(VM, f.basePointer + i)
                         = StackAt(last.pre, last.pre.sp - n + i)
    /\ (last.op = "OpSetLocal" /\ status # "panic") =>
           LET slot == currentFrame(last.pre).basePointer + LastOperand8
           IN /\ sp = last.pre.sp - 1
              /\ StackAt(VM, slot) = LastTop(0)
              /\ \A j \in 0..(StackSize - 1) \ {slot} :
                     StackAt(VM, j) = StackAt(last.pre, j)
    /\ (last.op = "OpGetLocal" /\ status \in {"running", "ok"}) =>
           /\ sp = last.pre.sp + 1
           /\ StackAt(VM, sp - 1)
                  = StackAt(last.pre,
                            currentFrame(last.pre).basePointer + LastOperand8)
    /\ (last.op \notin {"none", "OpSetLocal"} /\ framesIndex >= 1) =>
           \A k \in Surviving :
               \A j \in LocalSlots(last.pre.frames[k]) :
                   StackAt(VM, j) = StackAt(last.pre, j)

\* A callee with a parameter and a local of its own has stored the local and
\* reads its parameter: the argument is still there.
C23_Witness ==
    /\ last.op = "OpGetLocal" /\ LastOperand8 = 0
    /\ last.prev.op = "OpSetLocal"
    /\ framesIndex >= 2
    /\ currentFrame(VM).fn.NumParameters >= 1
    /\ StackAt(VM, sp - 1) = StackAt(LastCall.pre, LastCall.pre.sp - LastCall.n)

\* The pairs of a Hash other than the one under key k.
OtherPairs(h, hash, k) ==
    [x \in DOMAIN h[hash.id] \ {k} |-> h[hash.id][x]]

\* C24: OpIndexAssign with an Integer index in range stores the value in
\* the Array's element, with a hashable key it stores the pair under the
\* key in the Hash's map; it pushes the value and changes nothing else in
\* memory: no other element or pair, no other container.  No other
\* instruction changes an object that exists, and OpIndex pushes the element
\* or the pair's value it finds in memory: so whoever holds the container, a
\* global, a local or a stack slot, reads the stored value from then on.
C24_IndexAssignInPlace ==
    /\ last.op = "OpIndexAssign" /\ LastTop(2).type = "ARRAY"
       /\ LastTop(1).type = "INTEGER"
       /\ 0 <= LastTop(1).Value /\ LastTop(1).Value < LastTop(2).len =>
           LET left == LastTop(2)
               i == LastTop(1).Value
           IN /\ status = "running"
              /\ sp = last.pre.sp - 2
              /\ StackAt(VM, sp - 1) = LastTop(0)
              /\ ElementAt(heap, left, i) = LastTop(0)
              /\ heap = [last.pre.heap EXCEPT
                            ![left.base][left.off + i + 1] = LastTop(0)]
    /\ last.op = "OpIndexAssign" /\ LastTop(2).type = "HASH"
       /\ Hashable(LastTop(1)) =>
           LET left == LastTop(2)
               key == HashKey(LastTop(1))
           IN /\ status = "running"
              /\ sp = last.pre.sp - 2
              /\ StackAt(VM, sp - 1) = LastTop(0)
              /\ key \in DOMAIN heap[left.id]
              /\ heap[left.id][key].Value = LastTop(0)
              /\ OtherPairs(heap, left, key)
                     = OtherPairs(last.pre.heap, left, key)
              /\ DOMAIN heap = DOMAIN last.pre.heap
              /\ \A b \in DOMAIN heap \ {left.id} : heap[b] = last.pre.heap[b]
    /\ last.op \notin {"none", "OpIndexAssign"} =>
           \A b \in DOMAIN last.pre.heap :
               b \in DOMAIN heap /\ heap[b] = last.pre.heap[b]
    /\ last.op \notin {"none", "OpSetGlobal"} => globals = last.pre.globals
    /\ last.op = "OpIndex" /\ LastTop(1).type = "ARRAY"
       /\ LastTop(0).type = "INTEGER"
       /\ 0 <= LastTop(0).Value /\ LastTop(0).Value < LastTop(1).len =>
           /\ status = "running"
           /\ StackAt(VM, sp - 1)
                  = ElementAt(last.pre.heap, LastTop(1), LastTop(0).Value)
    /\ last.op = "OpIndex" /\ LastTop(1).type = "HASH"
       /\ Hashable(LastTop(0))
       /\ HashKey(LastTop(0)) \in DOMAIN last.pre.heap[LastTop(1).id] =>
           /\ status = "running"
           /\ StackAt(VM, sp - 1)
                  = last.pre.heap[LastTop(1).id][HashKey(LastTop(0))].Value

\* let a = [1, 2]; let b = a; b[0] = 0; a[0]: the OpIndex through a has
\* pushed the 0 stored through b.
C24_Witness ==
    /\ last.op = "OpIndex"
    /\ LastTop(1).type = "ARRAY" /\ LastTop(0) = Integer(0)
    /\ GlobalAt(VM, 0) = LastTop(1) /\ GlobalAt(VM, 1) = LastTop(1)
    /\ StackAt(VM, sp - 1) = Integer(0)

\* C26: when Run has returned without error, the main frame is the current
\* and only frame, its ip is at or past the last byte of the top-level
\* instructions, and every call that pushed a frame has returned through an
\* OpReturn or OpReturnValue executed in that frame.
C26_EndsInMainFrame ==
    status = "ok" =>
        /\ framesIndex = 1
        /\ currentFrame(VM).fn.id = 0
        /\ currentFrame(VM).ip >= Len(Instructions(currentFrame(VM))) - 1
        /\ \A k \in 1..Len(calls) : calls[k].id \in returned

\* let a = fn() { 1 }; let b = fn() { a() + 1 }; let c = fn() { b() + 1 };
\* c() has run to its end: three calls, three returns.
C26_Witness ==
    /\ status = "ok"
    /\ framesIndex = 1
    /\ Cardinality(returned) = 3
    /\ Len(calls) = 3

-----------------------------------------------------------------------------
\* Properties of the globals buffer.

\* C22: a VM built with NewWithGlobalsStore(_, s) has s for its globals, as
\* the VMs before it left it; OpSetGlobal i writes the popped value to slot i
\* of the globals, and of s when the VM shares it, and to no other slot; no
\* other instruction writes a global, and OpGetGlobal i pushes slot i: so a
\* value stored through one VM is read by the later VMs on s until an
\* OpSetGlobal i replaces it.  A VM built with New has globals of its own,
\* all unset, and writes nothing to s.
C22_GlobalsPersist ==
    /\ store.shared => globals = store.s
    /\ ~store.shared => store.s = store.before
    /\ last.op = "NewWithGlobalsStore" =>
           store.shared /\ globals = store.before
    /\ last.op = "New" => ~store.shared /\ globals = EmptyMap
    /\ (last.op = "OpSetGlobal" /\ CanPop(last.pre)) =>
           /\ status \in {"running", "ok"}
           /\ GlobalAt(VM, LastOperand16) = LastTop(0)
           /\ \A i \in (DOMAIN globals \cup DOMAIN last.pre.globals)
                           \ {LastOperand16} :
                  GlobalAt(VM, i) = GlobalAt(last.pre, i)
    /\ last.op \notin {"OpSetGlobal", "NewWithGlobalsStore", "New"} =>
           globals = last.pre.globals
    /\ (last.op = "OpGetGlobal" /\ status \in {"running", "ok"}) =>
           /\ sp = last.pre.sp + 1
           /\ StackAt(VM, sp - 1) = GlobalAt(last.pre, LastOperand16)
           /\ store.shared =>
                  StackAt(VM, sp - 1)
                      = IF LastOperand16 \in DOMAIN store.before
                        THEN store.before[LastOperand16] ELSE Nil

\* A third VM on s reads with OpGetGlobal what an earlier VM has stored,
\* after a VM built with New has run in between.
C22_Witness ==
    /\ last.op = "OpGetGlobal"
    /\ store.shared /\ store.vms = 3
    /\ last.prev.op = "NewWithGlobalsStore"
    /\ last.prev.pre.globals # store.s
    /\ StackAt(VM, sp - 1) \in {Integer(1), Integer(2)}

\* r is what rest(a) returned: another Array, on the elements of a from
\* index 1 on.
RestOf(r, a) ==
    /\ r.type = "ARRAY" /\ a.type = "ARRAY" /\ r.id # a.id
    /\ r.base = a.base /\ r.off = a.off + 1 /\ r.len = a.len - 1

\* C27: an index assignment in range on the Array rest(arr) returned changes
\* no element of arr, and one on arr changes no element of that Array.
C27_RestIndependent ==
    called.name = "index assignment" =>
        \A a \in ArraysHeld, r \in ArraysHeld :
            RestOf(r, a) =>
                /\ called.args[1] = r =>
                       Elements(heap, a) = Elements(called.heap, a)
                /\ called.args[1] = a =>
                       Elements(heap, r) = Elements(called.heap, r)

=============================================================================
